---- MODULE Spec2Model ----
(***************************************************************************)
(* Model of the job search agent: the aggregation pipeline                 *)
(* (JobSearchAgent.run, _filter_results), the normalizer                   *)
(* (BaseConnector._normalize_job_data) and the session handling of the     *)
(* platform connectors (authenticate, search_jobs, get_job_details).       *)
(*                                                                         *)
(* Python values are tagged records: a str is [str |-> "..."], None is     *)
(* [none |-> TRUE], a bool is [bool |-> b], a list is [list |-> <<...>>].  *)
(* A dict is a function from its keys (strings) to Python values.          *)
(***************************************************************************)
EXTENDS Integers, Sequences, FiniteSets, TLC

VARIABLES
    \* ---- JobSearchAgent ----
    job_search,     \* self.job_search: dict, key 'exclude_keywords' may be absent
    platforms,      \* self.platforms: names of the loaded connectors, in insertion order
    pc,             \* position of run(): "idle", "loop", "sort", "done", "raised"
                    \* ("none": no JobSearchAgent has been constructed)
    idx,            \* index into platforms of the connector being processed
    all_results,    \* the local list all_results of run()
    run_result,     \* value returned by run() (meaningful when pc = "done")
    returned,       \* history: per platform, what its search_jobs call did
    invoked,        \* history: the search_jobs calls run() has made, in order
    \* ---- connectors ----
    driver,         \* per platform: self._driver (NoDriver for None, else a session id)
    open_sessions,  \* browser sessions created and not yet quit
    next_sid,       \* id the next webdriver.Chrome() will get
    call,           \* the connector method being executed: [conn, op] or NoCall
    cpc,            \* position inside that method
    results,        \* local 'results' of search_jobs
    details,        \* return value of get_job_details
    auth_ok,        \* return value of the last authenticate()
    used_sid,       \* history: session the current call has used (NoDriver if none)
    exit_path,      \* history: how the current call left its try block
    \* ---- pure functions under test ----
    f_results,      \* argument of _filter_results
    f_out,          \* its outcome: [raised |-> BOOLEAN, value |-> list], or Pending
    f_again,        \* outcome of _filter_results applied to the list in f_out, or Pending
    n_raw,          \* argument of _normalize_job_data
    n_out,          \* its outcome, or Pending
    \* ---- apply_to_job / submit_application ----
    apply_ret,      \* value the last such call returned, or Pending
    \* ---- main() ----
    args,           \* parsed command line: [schedule, config]
    files,          \* the configuration files on disk: [default, custom]
    config,         \* what load_config returned to main(): a document or None
    mpc,            \* position of main(): "none", "start", "one_time", "running",
                    \* "scheduler", "starting", "waiting", "stopping",
                    \* "exit_0", "exit_1"
    \* ---- JobSearchScheduler ----
    s_config,       \* self.config of the scheduler: a document or None
    is_running,     \* self.is_running
    stop_event,     \* self._stop_event is set
    sched_jobs,     \* schedule.jobs: number of jobs registered with the schedule module
    spc,            \* position of the thread that calls start() / stop()
    thr,            \* per loop thread: its position in _run_scheduler
    started,        \* history: number of calls of _run_job_search
    saved,          \* history: number of scheduled runs that saved their results
    \* ---- FiverrConnector._extract_buyer_requests over the keywords ----
    fv_keywords,    \* the keywords search_jobs was called with
    fv_rows,        \* descriptions of the rows of the buyer requests table
    fv_now,         \* int(time.time())
    fv_k,           \* index of the keyword being processed (0: search not started)
    fv_r,           \* index of the next row for that keyword
    fv_requests,    \* local list 'requests' of _extract_buyer_requests
    fv_results,     \* local list 'results' of search_jobs
    \* ---- pagination in search_jobs of Indeed, LinkedIn and Upwork ----
    pg_conn,        \* the connector whose search_jobs is running
    pg_queries,     \* number of queries of the search (keywords, or keywords x locations)
    pg_q,           \* index of the query being processed
    pg_pc,          \* position: "none", "first", "while", "next", "done", "failed"
    current_page,   \* local current_page of the pagination loop
    pg_results,     \* local list 'results': the pages extracted, as (query, page)
    pg_exit         \* history: per finished query, how its pagination ended

agentVars == <<job_search, platforms, pc, idx, all_results, run_result, returned, invoked>>
connVars  == <<driver, open_sessions, next_sid, call, cpc, results, details, auth_ok,
              used_sid, exit_path>>
filterVars == <<f_results, f_out, f_again>>
normVars  == <<n_raw, n_out>>
applyVars == <<apply_ret>>
mainVars  == <<args, files, config, mpc>>
schedVars == <<s_config, is_running, stop_event, sched_jobs, spc, thr, started, saved>>
fiverrVars == <<fv_keywords, fv_rows, fv_now, fv_k, fv_r, fv_requests, fv_results>>
pageVars == <<pg_conn, pg_queries, pg_q, pg_pc, current_page, pg_results, pg_exit>>
otherVars == <<applyVars, mainVars, schedVars, fiverrVars, pageVars>>
vars == <<agentVars, connVars, filterVars, normVars, otherVars>>

----------------------------------------------------------------------------
(* Bounds of the model *)

MaxBatch == 2        \* longest list a search_jobs call returns
MaxSessions == 3     \* webdriver.Chrome() succeeds at most this many times
MaxFilterLen == 2    \* longest list handed to _filter_results on its own
MaxThreads == 2      \* loop threads start() can spawn
MaxRuns == 2         \* scheduled runs that are started
MaxTick == 1         \* seconds the clock advances during one Fiverr search
MaxRows == 2         \* rows of the Fiverr buyer requests table
MaxQueries == 2      \* queries (keywords x locations) of one search

----------------------------------------------------------------------------
(* Python values *)

PyStr(s)  == [str |-> s]
PyNone    == [none |-> TRUE]
PyBool(b) == [bool |-> b]
PyList(l) == [list |-> l]

IsStr(v)  == "str" \in DOMAIN v
IsNone(v) == "none" \in DOMAIN v

\* dict.get(key, default)
DictGet(d, k, default) == IF k \in DOMAIN d THEN d[k] ELSE default

\* d[key] = value
DictSet(d, k, v) == [x \in (DOMAIN d) \cup {k} |-> IF x = k THEN v ELSE d[x]]

EmptyDict == [k \in {} |-> PyNone]

Pending == [pending |-> TRUE]

----------------------------------------------------------------------------
(* Python str operations *)

UpperCase == "ABCDEFGHIJKLMNOPQRSTUVWXYZ"
LowerCase == "abcdefghijklmnopqrstuvwxyz"

\* The characters the model's strings are made of, in code point order.
CodePointOrder == " -.0123456789:ABCDEFGHIJKLMNOPQRSTUVWXYZ_abcdefghijklmnopqrstuvwxyz"

CharAt(s, i) == SubSeq(s, i, i)

Ord(c) == CHOOSE i \in 1..Len(CodePointOrder) : CharAt(CodePointOrder, i) = c

Min(a, b) == IF a < b THEN a ELSE b

\* str.__lt__: lexicographic comparison by code point
StrLess(a, b) ==
    LET n == Min(Len(a), Len(b))
        diff == {i \in 1..n : CharAt(a, i) # CharAt(b, i)}
    IN  IF diff = {} THEN Len(a) < Len(b)
        ELSE LET i == CHOOSE j \in diff : \A k \in diff : j <= k
             IN  Ord(CharAt(a, i)) < Ord(CharAt(b, i))

LowerChar(c) ==
    IF \E i \in 1..Len(UpperCase) : CharAt(UpperCase, i) = c
    THEN CharAt(LowerCase, CHOOSE i \in 1..Len(UpperCase) : CharAt(UpperCase, i) = c)
    ELSE c

RECURSIVE StrLower(_)
\* str.lower()
StrLower(s) ==
    IF Len(s) = 0 THEN ""
    ELSE LowerChar(CharAt(s, 1)) \o StrLower(SubSeq(s, 2, Len(s)))

\* needle in hay (substring test of str.__contains__)
StrContains(needle, hay) ==
    \E i \in 1..(Len(hay) - Len(needle) + 1) :
        SubSeq(hay, i, i + Len(needle) - 1) = needle

----------------------------------------------------------------------------
(* BaseConnector._normalize_job_data *)

CanonicalFields ==
    {"id", "title", "company", "location", "description", "url", "salary",
     "date_posted", "job_type", "experience_level", "skills", "is_remote"}

FieldDefault(k) ==
    CASE k = "skills"    -> PyList(<<>>)
      [] k = "is_remote" -> PyBool(FALSE)
      [] OTHER           -> PyStr("")

\* mutant of NormalizeJobData: the defaults are merged under the raw record,
\* so keys outside the canonical fields survive
NormalizeKeepsExtras(raw_job) ==
    [k \in CanonicalFields \cup DOMAIN raw_job |-> DictGet(raw_job, k, FieldDefault(k))]

NormalizeJobData(raw_job) ==
    [k \in CanonicalFields |-> DictGet(raw_job, k, FieldDefault(k))]

----------------------------------------------------------------------------
(* JobSearchAgent._filter_results *)

StrField(job, k) == DictGet(job, k, PyStr(""))

\* a title or description that is not a str has no .lower(): AttributeError
FilterFails(job) == ~IsStr(StrField(job, "title")) \/ ~IsStr(StrField(job, "description"))

\* mutant of JobExcluded: the keyword is not lowered before the substring test
JobExcludedKeywordAsIs(job, exclude_keywords) ==
    LET title == StrLower(StrField(job, "title").str)
        description == StrLower(StrField(job, "description").str)
    IN  \E i \in 1..Len(exclude_keywords) :
            \/ StrContains(exclude_keywords[i], title)
            \/ StrContains(exclude_keywords[i], description)

\* any(kw.lower() in title or kw.lower() in description for kw in exclude_keywords)
JobExcluded(job, exclude_keywords) ==
    LET title == StrLower(StrField(job, "title").str)
        description == StrLower(StrField(job, "description").str)
    IN  \E i \in 1..Len(exclude_keywords) :
            \/ StrContains(StrLower(exclude_keywords[i]), title)
            \/ StrContains(StrLower(exclude_keywords[i]), description)

RECURSIVE FilterLoopSkipsAfterRemoval(_, _)
\* mutant of FilterLoop: an excluded listing is removed from the list that
\* is being iterated, so the listing that follows it is not examined
FilterLoopSkipsAfterRemoval(jobs, exclude_keywords) ==
    IF jobs = <<>> THEN <<>>
    ELSE IF JobExcluded(Head(jobs), exclude_keywords)
         THEN IF Len(jobs) = 1 THEN <<>>
              ELSE <<jobs[2]>> \o
                   FilterLoopSkipsAfterRemoval(SubSeq(jobs, 3, Len(jobs)), exclude_keywords)
         ELSE <<Head(jobs)>> \o FilterLoopSkipsAfterRemoval(Tail(jobs), exclude_keywords)

RECURSIVE FilterLoopLowersTitle(_, _)
\* mutant of FilterLoop: the lowered title is written back into the listing
FilterLoopLowersTitle(jobs, exclude_keywords) ==
    IF jobs = <<>> THEN <<>>
    ELSE LET rest == FilterLoopLowersTitle(Tail(jobs), exclude_keywords)
             title == StrLower(StrField(Head(jobs), "title").str)
         IN  IF JobExcluded(Head(jobs), exclude_keywords)
             THEN rest
             ELSE <<DictSet(Head(jobs), "title", PyStr(title))>> \o rest

RECURSIVE FilterLoopKeepsExcluded(_, _)
\* mutant of FilterLoop: the 'not' in front of any(...) is missing
FilterLoopKeepsExcluded(jobs, exclude_keywords) ==
    IF jobs = <<>> THEN <<>>
    ELSE LET rest == FilterLoopKeepsExcluded(Tail(jobs), exclude_keywords)
         IN  IF JobExcluded(Head(jobs), exclude_keywords)
             THEN <<Head(jobs)>> \o rest
             ELSE rest

RECURSIVE FilterLoop(_, _)
\* the for loop of _filter_results over jobs that all have str title/description
FilterLoop(jobs, exclude_keywords) ==
    IF jobs = <<>> THEN <<>>
    ELSE LET rest == FilterLoop(Tail(jobs), exclude_keywords)
         IN  IF JobExcluded(Head(jobs), exclude_keywords)
             THEN rest
             ELSE <<Head(jobs)>> \o rest

\* mutant of FilterResults: no early return for an empty exclusion list
FilterResultsAlwaysLoops(jobs, js) ==
    LET exclude_keywords == DictGet(js, "exclude_keywords", <<>>)
    IN  IF \E i \in 1..Len(jobs) : FilterFails(jobs[i])
        THEN [raised |-> TRUE, value |-> <<>>]
        ELSE [raised |-> FALSE, value |-> FilterLoop(jobs, exclude_keywords)]

\* outcome of self._filter_results(jobs): the returned list, or an exception
FilterResults(jobs, js) ==
    LET exclude_keywords == DictGet(js, "exclude_keywords", <<>>)
    IN  IF exclude_keywords = <<>>
        THEN [raised |-> FALSE, value |-> jobs]
        ELSE IF \E i \in 1..Len(jobs) : FilterFails(jobs[i])
             THEN [raised |-> TRUE, value |-> <<>>]
             ELSE [raised |-> FALSE, value |-> FilterLoop(jobs, exclude_keywords)]

----------------------------------------------------------------------------
(* all_results.sort(key=lambda x: x.get('date_posted', ''), reverse=True) *)

SortKey(x) == DictGet(x, "date_posted", PyStr(""))

\* '<' between two keys raises TypeError unless both are str; a list of
\* two or more elements is compared at least once against every key
SortRaises(jobs) ==
    Len(jobs) >= 2 /\ \E i \in 1..Len(jobs) : ~IsStr(SortKey(jobs[i]))

\* mutant of InsertDesc: equal keys are placed before the earlier ones
InsertDescTiesFirst(sorted, x) ==
    LET p == Cardinality({i \in 1..Len(sorted) :
                 StrLess(SortKey(x).str, SortKey(sorted[i]).str)})
    IN  SubSeq(sorted, 1, p) \o <<x>> \o SubSeq(sorted, p + 1, Len(sorted))

\* mutant of InsertDesc: ascending order (reverse=True forgotten)
InsertAsc(sorted, x) ==
    LET p == Cardinality({i \in 1..Len(sorted) :
                 ~StrLess(SortKey(x).str, SortKey(sorted[i]).str)})
    IN  SubSeq(sorted, 1, p) \o <<x>> \o SubSeq(sorted, p + 1, Len(sorted))

\* x goes behind every element whose key is not smaller than its own
InsertDesc(sorted, x) ==
    LET p == Cardinality({i \in 1..Len(sorted) :
                 ~StrLess(SortKey(sorted[i]).str, SortKey(x).str)})
    IN  SubSeq(sorted, 1, p) \o <<x>> \o SubSeq(sorted, p + 1, Len(sorted))

RECURSIVE SortByDateDesc(_)
\* stable descending sort of a list whose keys are all str
SortByDateDesc(jobs) ==
    IF jobs = <<>> THEN <<>>
    ELSE InsertDesc(SortByDateDesc(SubSeq(jobs, 1, Len(jobs) - 1)), jobs[Len(jobs)])

\* outcome of the sort statement
SortResults(jobs) ==
    IF SortRaises(jobs) THEN [raised |-> TRUE, value |-> <<>>]
    ELSE IF Len(jobs) <= 1 THEN [raised |-> FALSE, value |-> jobs]
    ELSE [raised |-> FALSE, value |-> SortByDateDesc(jobs)]

----------------------------------------------------------------------------
(* Data the connectors and the configuration are drawn from *)

\* dict literal {k1: v1, k2: v2, ...}
MkDict(pairs) ==
    [k \in {pairs[i][1] : i \in 1..Len(pairs)} |->
        pairs[CHOOSE i \in 1..Len(pairs) : pairs[i][1] = k][2]]

SeqsUpTo(S, n) == UNION {[1..k -> S] : k \in 0..n}

\* job_data of a LinkedIn card (linkedin.py:292-299)
RawPython ==
    MkDict(<< <<"id", PyStr("101")>>, <<"title", PyStr("Python Developer")>>,
              <<"company", PyStr("Acme")>>, <<"location", PyStr("Berlin")>>,
              <<"url", PyStr("jobs/view/101")>>,
              <<"date_posted", PyStr("2024-01-10")>> >>)

RawPhp ==
    MkDict(<< <<"id", PyStr("102")>>, <<"title", PyStr("PHP Developer")>>,
              <<"company", PyStr("Initech")>>, <<"location", PyStr("Remote")>>,
              <<"url", PyStr("jobs/view/102")>>,
              <<"date_posted", PyStr("2024-01-12")>> >>)

\* a LinkedIn card whose <time> element has no datetime attribute:
\* get_attribute('datetime') returns None (linkedin.py:288)
RawNoDatetime ==
    MkDict(<< <<"id", PyStr("104")>>, <<"title", PyStr("Senior PHP Developer")>>,
              <<"company", PyStr("Globex")>>, <<"location", PyStr("Remote")>>,
              <<"url", PyStr("jobs/view/104")>>,
              <<"date_posted", PyNone>> >>)

\* job_data of an Indeed / Upwork card without a recognisable date
\* (indeed.py:353-362, upwork.py:404-415)
RawSenior ==
    MkDict(<< <<"id", PyStr("103")>>, <<"title", PyStr("Senior Developer")>>,
              <<"company", PyStr("Upwork Client")>>,
              <<"url", PyStr("jobs/103")>>,
              <<"description", PyStr("Build graphql APIs")>>,
              <<"salary", PyStr("")>>, <<"job_type", PyStr("Hourly")>>,
              <<"date_posted", PyStr("")>>,
              <<"skills", PyList(<<"graphql">>)>>, <<"is_remote", PyBool(TRUE)>> >>)

\* job_data of a Fiverr buyer request (fiverr.py:243-258)
RawBuyer ==
    MkDict(<< <<"id", PyStr("fiverr_request_1704844800_0")>>,
              <<"title", PyStr("Buyer Request: Need a Php script...")>>,
              <<"company", PyStr("Fiverr Buyer: bob")>>,
              <<"description", PyStr("Need a Php script")>>,
              <<"salary", PyStr("")>>,
              <<"date_posted", PyStr("2024-01-10")>>,
              <<"job_type", PyStr("Freelance")>>,
              <<"platform", PyStr("Fiverr")>>,
              <<"url", PyStr("sellers/buyer-requests")>>,
              <<"is_remote", PyBool(TRUE)>>,
              <<"duration", PyStr("3 days")>> >>)

\* insight_data of a Fiverr public gig (fiverr.py:314-327)
RawInsight ==
    MkDict(<< <<"id", PyStr("fiverr_insight_1704844800_0")>>,
              <<"title", PyStr("Market Opportunity: Python bots")>>,
              <<"company", PyStr("Fiverr Market Analysis")>>,
              <<"description", PyStr("Market insight: Python bots by ann")>>,
              <<"salary", PyStr("Competitor price: ")>>,
              <<"date_posted", PyStr("2024-01-12")>>,
              <<"job_type", PyStr("Market Insight")>>,
              <<"platform", PyStr("Fiverr")>>,
              <<"url", PyStr("search/gigs")>>,
              <<"is_remote", PyBool(TRUE)>> >>)

\* the cards each connector can find on its site; Fiverr finds buyer
\* requests on the regular path and public gigs on the fallback path
RawCards(name, path) ==
    CASE name = "linkedin" -> {RawPython, RawPhp, RawNoDatetime}
      [] name = "indeed"   -> {RawPython, RawPhp, RawSenior}
      [] name = "upwork"   -> {RawPhp, RawSenior}
      [] name = "fiverr"   -> IF path = "early_return" THEN {RawInsight} ELSE {RawBuyer}

\* every connector appends self._normalize_job_data(job_data) to its results
Listings(name, path) == {NormalizeJobData(r) : r \in RawCards(name, path)}

\* the job_search sections run() is started with
RunConfigs ==
    { EmptyDict,
      [exclude_keywords |-> <<"PHP">>],
      [exclude_keywords |-> <<"graphql", "Market">>] }

\* the job_search sections _filter_results is tried with
JobSearchConfigs ==
    { EmptyDict,
      [exclude_keywords |-> <<>>],
      [exclude_keywords |-> <<"PHP">>],
      [exclude_keywords |-> <<"php">>],
      [exclude_keywords |-> <<"graphql", "Market">>] }

----------------------------------------------------------------------------
(* Configuration and JobSearchAgent.__init__ / _load_platforms *)

\* the modules that exist under src/platforms
ConnectorModules == {"linkedin", "fiverr", "indeed", "upwork"}

Enabled  == [enabled |-> TRUE]
Disabled == [enabled |-> FALSE]

\* the platforms section of the configuration: name -> settings, in file order
PlatformsSections ==
    { << [name |-> "linkedin", settings |-> Enabled],
         [name |-> "indeed", settings |-> Enabled] >>,
      << [name |-> "fiverr", settings |-> Enabled],
         [name |-> "glassdoor", settings |-> Enabled],
         [name |-> "indeed", settings |-> EmptyDict],
         [name |-> "linkedin", settings |-> Enabled],
         [name |-> "upwork", settings |-> Disabled] >>,
      << [name |-> "upwork", settings |-> Enabled] >> }

\* mutant of LoadPlatforms: loading stops at the first enabled platform
\* whose module cannot be imported
LoadPlatformsStopsAtUnknown(section) ==
    LET IsEnabled(e) == DictGet(e.settings, "enabled", FALSE)
        bad == {i \in 1..Len(section) :
                   IsEnabled(section[i]) /\ section[i].name \notin ConnectorModules}
        upto == IF bad = {} THEN Len(section)
                ELSE (CHOOSE i \in bad : \A j \in bad : i <= j) - 1
        sel == SelectSeq(SubSeq(section, 1, upto), IsEnabled)
    IN  [i \in 1..Len(sel) |-> sel[i].name]

RECURSIVE LoadPlatforms(_)
\* names of the connectors _load_platforms puts into self.platforms: a
\* platform that is not enabled is skipped, and so is one whose module
\* cannot be imported (ImportError is logged)
LoadPlatforms(section) ==
    IF section = <<>> THEN <<>>
    ELSE LET e == Head(section)
             rest == LoadPlatforms(Tail(section))
         IN  IF ~DictGet(e.settings, "enabled", FALSE) THEN rest
             ELSE IF e.name \notin ConnectorModules THEN rest
             ELSE <<e.name>> \o rest

----------------------------------------------------------------------------
(* Initial states *)

NoDriver == 0
NoCall == [conn |-> "", op |-> ""]
NotCalled == [status |-> "not_called"]
Raised == [status |-> "raised"]
Returned(v, auth_failed) == [status |-> "returned", value |-> v, auth_failed |-> auth_failed]

AgentIdle ==
    /\ pc = "idle"
    /\ idx = 0
    /\ all_results = <<>>
    /\ run_result = <<>>
    /\ returned = [n \in ConnectorModules |-> NotCalled]
    /\ invoked = <<>>

\* BaseConnector.__init__ and the connectors' __init__: self._driver = None
ConnIdle ==
    /\ driver = [n \in ConnectorModules |-> NoDriver]
    /\ open_sessions = {}
    /\ next_sid = 1
    /\ call = NoCall
    /\ cpc = "none"
    /\ results = <<>>
    /\ details = EmptyDict
    /\ auth_ok = FALSE
    /\ used_sid = NoDriver
    /\ exit_path = "none"

FilterIdle == f_results = <<>> /\ f_out = Pending /\ f_again = Pending
NormIdle == n_raw = EmptyDict /\ n_out = Pending

ApplyIdle == apply_ret = Pending

NoArgs == [schedule |-> FALSE, config |-> ""]
Threads == 1..MaxThreads

\* main() has not been entered
MainIdle ==
    /\ args = NoArgs
    /\ files = PyNone
    /\ config = PyNone
    /\ mpc = "none"

\* no JobSearchScheduler has been constructed
SchedIdle ==
    /\ s_config = PyNone
    /\ is_running = FALSE
    /\ stop_event = FALSE
    /\ sched_jobs = 0
    /\ spc = "none"
    /\ thr = [t \in Threads |-> "none"]
    /\ started = 0
    /\ saved = 0

FiverrIdle ==
    /\ fv_keywords = <<>>
    /\ fv_rows = <<>>
    /\ fv_now = 0
    /\ fv_k = 0
    /\ fv_r = 0
    /\ fv_requests = <<>>
    /\ fv_results = <<>>

\* no paginated search is running
PageIdle ==
    /\ pg_conn = ""
    /\ pg_queries = 0
    /\ pg_q = 0
    /\ pg_pc = "none"
    /\ current_page = 0
    /\ pg_results = <<>>
    /\ pg_exit = <<>>

OtherIdle == ApplyIdle /\ MainIdle /\ SchedIdle /\ FiverrIdle /\ PageIdle

Init ==
    /\ job_search \in RunConfigs
    /\ \E section \in PlatformsSections : platforms = LoadPlatforms(section)
    /\ AgentIdle
    /\ ConnIdle
    /\ FilterIdle
    /\ NormIdle
    /\ OtherIdle

----------------------------------------------------------------------------
(* Connector methods: authenticate, search_jobs, get_job_details.          *)
(* The four connectors share this structure; Fiverr adds an early return   *)
(* in search_jobs and has a stub get_job_details.                          *)

Conn == call.conn

\* self._driver.quit(); self._driver = None, guarded by 'if self._driver'
QuitDriver(c) ==
    /\ open_sessions' = open_sessions \ {driver[c]}
    /\ driver' = [driver EXCEPT ![c] = NoDriver]

\* where the caller of authenticate() continues with its return value
AfterAuth(ok) ==
    /\ auth_ok' = ok
    /\ IF call.op = "authenticate"
       THEN cpc' = "returned" /\ UNCHANGED exit_path
       ELSE IF ok
            THEN cpc' = "body" /\ UNCHANGED exit_path
            ELSE cpc' = "finally" /\ exit_path' = "auth_failed"

\* 'if not self._driver: if not self.authenticate(): return results'
Enter ==
    /\ call # NoCall
    /\ cpc = "enter"
    /\ cpc' = IF driver[Conn] = NoDriver THEN "auth_chrome" ELSE "body"
    /\ used_sid' = driver[Conn]
    /\ UNCHANGED <<driver, open_sessions, next_sid, call, results, details, auth_ok, exit_path>>
    /\ UNCHANGED <<agentVars, filterVars, normVars, otherVars>>

\* webdriver.Chrome(...) raises: the except clause quits a driver left
\* from an earlier authenticate(), if any, and returns False
AuthChromeFails ==
    /\ call # NoCall
    /\ cpc = "auth_chrome"
    /\ QuitDriver(Conn)
    /\ AfterAuth(FALSE)
    /\ UNCHANGED <<next_sid, call, results, details, used_sid>>
    /\ UNCHANGED <<agentVars, filterVars, normVars, otherVars>>

\* self._driver = webdriver.Chrome(...): a new browser session
AuthChromeStarts ==
    /\ call # NoCall
    /\ cpc = "auth_chrome"
    /\ next_sid <= MaxSessions
    /\ driver' = [driver EXCEPT ![Conn] = next_sid]
    /\ open_sessions' = open_sessions \cup {next_sid}
    /\ next_sid' = next_sid + 1
    /\ used_sid' = next_sid
    /\ cpc' = "auth_login"
    /\ UNCHANGED <<call, results, details, auth_ok, exit_path>>
    /\ UNCHANGED <<agentVars, filterVars, normVars, otherVars>>

\* page load and login succeed: return True
AuthLoginSucceeds ==
    /\ call # NoCall
    /\ cpc = "auth_login"
    /\ AfterAuth(TRUE)
    /\ UNCHANGED <<driver, open_sessions, next_sid, call, results, details, used_sid>>
    /\ UNCHANGED <<agentVars, filterVars, normVars, otherVars>>

\* mutant of AuthLoginFails: False is returned but the driver created
\* during the attempt is kept
AuthLoginFailsKeepsDriver ==
    /\ call # NoCall
    /\ cpc = "auth_login"
    /\ AfterAuth(FALSE)
    /\ UNCHANGED <<driver, open_sessions, next_sid, call, results, details, used_sid>>
    /\ UNCHANGED <<agentVars, filterVars, normVars, otherVars>>

\* page load, form fill or login wait raises: quit the driver, return False
AuthLoginFails ==
    /\ call # NoCall
    /\ cpc = "auth_login"
    /\ QuitDriver(Conn)
    /\ AfterAuth(FALSE)
    /\ UNCHANGED <<next_sid, call, results, details, used_sid>>
    /\ UNCHANGED <<agentVars, filterVars, normVars, otherVars>>

\* the try body of search_jobs ran to its end
SearchCompletes ==
    /\ call.op = "search_jobs"
    /\ cpc = "body"
    /\ \E batch \in SeqsUpTo(Listings(Conn, "completed"), MaxBatch) : results' = batch
    /\ exit_path' = "completed"
    /\ cpc' = "finally"
    /\ UNCHANGED <<driver, open_sessions, next_sid, call, details, auth_ok, used_sid>>
    /\ UNCHANGED <<agentVars, filterVars, normVars, otherVars>>

\* mutant of SearchFails: the exception is not caught and leaves search_jobs
SearchFailsPropagates ==
    /\ call.op = "search_jobs"
    /\ cpc = "body"
    /\ \E batch \in SeqsUpTo(Listings(Conn, "exception"), MaxBatch) : results' = batch
    /\ exit_path' = "exception"
    /\ cpc' = "raised"
    /\ UNCHANGED <<driver, open_sessions, next_sid, call, details, auth_ok, used_sid>>
    /\ UNCHANGED <<agentVars, filterVars, normVars, otherVars>>

\* mutant of SearchFails: the except clause returns at once and the finally
\* block is not run
SearchFailsSkipsFinally ==
    /\ call.op = "search_jobs"
    /\ cpc = "body"
    /\ \E batch \in SeqsUpTo(Listings(Conn, "exception"), MaxBatch) : results' = batch
    /\ exit_path' = "exception"
    /\ cpc' = "returned"
    /\ UNCHANGED <<driver, open_sessions, next_sid, call, details, auth_ok, used_sid>>
    /\ UNCHANGED <<agentVars, filterVars, normVars, otherVars>>

\* an exception inside the try body, caught by 'except Exception': the
\* listings collected so far stay in results
SearchFails ==
    /\ call.op = "search_jobs"
    /\ cpc = "body"
    /\ \E batch \in SeqsUpTo(Listings(Conn, "exception"), MaxBatch) : results' = batch
    /\ exit_path' = "exception"
    /\ cpc' = "finally"
    /\ UNCHANGED <<driver, open_sessions, next_sid, call, details, auth_ok, used_sid>>
    /\ UNCHANGED <<agentVars, filterVars, normVars, otherVars>>

\* Fiverr: the buyer requests table does not load, the public gigs are
\* searched instead and 'return results' leaves the try block early
FiverrFallback ==
    /\ call.op = "search_jobs"
    /\ Conn = "fiverr"
    /\ cpc = "body"
    /\ \E batch \in SeqsUpTo(Listings(Conn, "early_return"), MaxBatch) : results' = batch
    /\ exit_path' = "early_return"
    /\ cpc' = "finally"
    /\ UNCHANGED <<driver, open_sessions, next_sid, call, details, auth_ok, used_sid>>
    /\ UNCHANGED <<agentVars, filterVars, normVars, otherVars>>

\* get_job_details found the page: return self._normalize_job_data(job_details)
DetailsCompletes ==
    /\ call.op = "get_job_details"
    /\ cpc = "body"
    /\ \E d \in Listings(Conn, "completed") : details' = d
    /\ exit_path' = "completed"
    /\ cpc' = "finally"
    /\ UNCHANGED <<driver, open_sessions, next_sid, call, results, auth_ok, used_sid>>
    /\ UNCHANGED <<agentVars, filterVars, normVars, otherVars>>

\* get_job_details: exception caught, return {}
DetailsFails ==
    /\ call.op = "get_job_details"
    /\ cpc = "body"
    /\ details' = EmptyDict
    /\ exit_path' = "exception"
    /\ cpc' = "finally"
    /\ UNCHANGED <<driver, open_sessions, next_sid, call, results, auth_ok, used_sid>>
    /\ UNCHANGED <<agentVars, filterVars, normVars, otherVars>>

\* mutant of Finally: the reference is dropped but the browser is not quit
FinallyForgetsQuit ==
    /\ call # NoCall
    /\ cpc = "finally"
    /\ driver' = [driver EXCEPT ![Conn] = NoDriver]
    /\ cpc' = "returned"
    /\ UNCHANGED <<open_sessions, next_sid, call, results, details, auth_ok, used_sid, exit_path>>
    /\ UNCHANGED <<agentVars, filterVars, normVars, otherVars>>

\* finally: if self._driver: self._driver.quit(); self._driver = None
Finally ==
    /\ call # NoCall
    /\ cpc = "finally"
    /\ QuitDriver(Conn)
    /\ cpc' = "returned"
    /\ UNCHANGED <<next_sid, call, results, details, auth_ok, used_sid, exit_path>>
    /\ UNCHANGED <<agentVars, filterVars, normVars, otherVars>>

----------------------------------------------------------------------------
(* Direct calls of a connector's methods, outside run() *)
(* (run() itself is not entered once a direct call has been made: pc stays *)
(* "idle" in SpecConnector)                                                *)

Loaded == {platforms[i] : i \in 1..Len(platforms)}

ClearCall ==
    /\ call' = NoCall
    /\ cpc' = "none"
    /\ results' = <<>>
    /\ details' = EmptyDict
    /\ auth_ok' = FALSE
    /\ used_sid' = NoDriver
    /\ exit_path' = "none"

CallAuthenticate(c) ==
    /\ pc = "idle"
    /\ call = NoCall
    /\ call' = [conn |-> c, op |-> "authenticate"]
    /\ cpc' = "auth_chrome"
    /\ used_sid' = driver[c]
    /\ UNCHANGED <<driver, open_sessions, next_sid, results, details, auth_ok, exit_path>>
    /\ UNCHANGED <<agentVars, filterVars, normVars, otherVars>>

CallSearchJobs(c) ==
    /\ pc = "idle"
    /\ call = NoCall
    /\ call' = [conn |-> c, op |-> "search_jobs"]
    /\ cpc' = "enter"
    /\ used_sid' = driver[c]
    /\ UNCHANGED <<driver, open_sessions, next_sid, results, details, auth_ok, exit_path>>
    /\ UNCHANGED <<agentVars, filterVars, normVars, otherVars>>

\* Fiverr's get_job_details is a stub that returns {} at once
CallGetJobDetails(c) ==
    /\ pc = "idle"
    /\ call = NoCall
    /\ call' = [conn |-> c, op |-> "get_job_details"]
    /\ cpc' = IF c = "fiverr" THEN "returned" ELSE "enter"
    /\ used_sid' = driver[c]
    /\ UNCHANGED <<driver, open_sessions, next_sid, results, details, auth_ok, exit_path>>
    /\ UNCHANGED <<agentVars, filterVars, normVars, otherVars>>

\* job ids and application data the stubs are called with
JobIds == {"101", "fiverr_request_1704844800_0"}
ApplicationData == {EmptyDict, [cover_letter |-> PyStr("Dear Sir")]}
ApplyOps == {"apply_to_job", "submit_application"}

\* mutant of ApplyToJob: the connector logs in before it gives up
ApplyToJobLogsIn(c, job_id, application_data) ==
    /\ pc = "idle"
    /\ call = NoCall
    /\ next_sid <= MaxSessions
    /\ call' = [conn |-> c, op |-> "apply_to_job"]
    /\ cpc' = "returned"
    /\ driver' = [driver EXCEPT ![c] = next_sid]
    /\ open_sessions' = open_sessions \cup {next_sid}
    /\ next_sid' = next_sid + 1
    /\ apply_ret' = PyBool(FALSE)
    /\ UNCHANGED <<results, details, auth_ok, used_sid, exit_path>>
    /\ UNCHANGED <<agentVars, filterVars, normVars, mainVars, schedVars, fiverrVars, pageVars>>

\* apply_to_job(job_id, application_data) of any connector: logs a warning
\* and returns False
ApplyToJob(c, job_id, application_data) ==
    /\ pc = "idle"
    /\ call = NoCall
    /\ call' = [conn |-> c, op |-> "apply_to_job"]
    /\ cpc' = "returned"
    /\ apply_ret' = PyBool(FALSE)
    /\ UNCHANGED <<driver, open_sessions, next_sid, results, details, auth_ok, used_sid,
                   exit_path>>
    /\ UNCHANGED <<agentVars, filterVars, normVars, mainVars, schedVars, fiverrVars, pageVars>>

\* JobSearchAgent.submit_application(job_id, customize_application): logs a
\* warning and returns False; no connector is looked up or called
SubmitApplication(job_id, customize_application) ==
    /\ pc = "idle"
    /\ call = NoCall
    /\ call' = [conn |-> "", op |-> "submit_application"]
    /\ cpc' = "returned"
    /\ apply_ret' = PyBool(FALSE)
    /\ UNCHANGED <<driver, open_sessions, next_sid, results, details, auth_ok, used_sid,
                   exit_path>>
    /\ UNCHANGED <<agentVars, filterVars, normVars, mainVars, schedVars, fiverrVars, pageVars>>

\* the direct call has returned to its caller
CallReturns ==
    /\ pc = "idle"
    /\ call # NoCall
    /\ cpc = "returned"
    /\ ClearCall
    /\ UNCHANGED <<driver, open_sessions, next_sid>>
    /\ UNCHANGED <<agentVars, filterVars, normVars, otherVars>>

----------------------------------------------------------------------------
(* JobSearchAgent.run *)

\* mutant of StampPlatform: a platform value already in the record is kept
\* and a record without one gets the connector's class name
StampClassName(jobs, platform_name) ==
    [i \in 1..Len(jobs) |->
        IF "platform" \in DOMAIN jobs[i] THEN jobs[i]
        ELSE DictSet(jobs[i], "platform",
                     PyStr(IF platform_name = "linkedin" THEN "Linkedin"
                           ELSE IF platform_name = "indeed" THEN "Indeed"
                           ELSE IF platform_name = "upwork" THEN "Upwork"
                           ELSE "Fiverr"))]

\* for result in filtered_results: result['platform'] = platform_name
StampPlatform(jobs, platform_name) ==
    [i \in 1..Len(jobs) |-> DictSet(jobs[i], "platform", PyStr(platform_name))]

\* the keyword arguments run() passes to search_jobs (agent.py:68-78)
SearchCriteria(js) ==
    [keywords |-> DictGet(js, "keywords", <<>>),
     locations |-> DictGet(js, "locations", <<>>),
     job_types |-> DictGet(js, "job_types", <<>>),
     remote |-> DictGet(js, "remote", FALSE),
     experience_levels |-> DictGet(js, "experience_level", <<>>)]

\* connector.search_jobs(keywords=..., ...) on the connector of that name
SearchCall(platform_name) == [conn |-> platform_name, criteria |-> SearchCriteria(job_search)]

\* all_results = []
RunStart ==
    /\ pc = "idle"
    /\ call = NoCall
    /\ all_results' = <<>>
    /\ idx' = 1
    /\ pc' = "loop"
    /\ invoked' = <<>>
    /\ UNCHANGED <<job_search, platforms, run_result, returned>>
    /\ UNCHANGED <<connVars, filterVars, normVars, otherVars>>

\* results = connector.search_jobs(...) is entered for the next connector
RunCallSearch ==
    /\ pc = "loop"
    /\ idx <= Len(platforms)
    /\ call = NoCall
    /\ call' = [conn |-> platforms[idx], op |-> "search_jobs"]
    /\ cpc' = "enter"
    /\ results' = <<>>
    /\ invoked' = Append(invoked, SearchCall(platforms[idx]))
    /\ UNCHANGED <<driver, open_sessions, next_sid, details, auth_ok, used_sid, exit_path>>
    /\ UNCHANGED <<job_search, platforms, pc, idx, all_results, run_result, returned>>
    /\ UNCHANGED <<filterVars, normVars, otherVars>>

\* mutant of RunSearchRaises: the exception ends the loop over the
\* connectors
RunSearchRaisesEndsLoop ==
    /\ pc = "loop"
    /\ idx <= Len(platforms)
    /\ call = NoCall
    /\ returned' = [returned EXCEPT ![platforms[idx]] = Raised]
    /\ invoked' = Append(invoked, SearchCall(platforms[idx]))
    /\ idx' = Len(platforms) + 1
    /\ UNCHANGED <<job_search, platforms, pc, all_results, run_result>>
    /\ UNCHANGED <<connVars, filterVars, normVars, otherVars>>

\* connector.search_jobs(...) raises: 'except Exception' logs the error and
\* the loop goes on with the next connector
RunSearchRaises ==
    /\ pc = "loop"
    /\ idx <= Len(platforms)
    /\ call = NoCall
    /\ returned' = [returned EXCEPT ![platforms[idx]] = Raised]
    /\ invoked' = Append(invoked, SearchCall(platforms[idx]))
    /\ idx' = idx + 1
    /\ UNCHANGED <<job_search, platforms, pc, all_results, run_result>>
    /\ UNCHANGED <<connVars, filterVars, normVars, otherVars>>

\* mutant of RunCollect: the batch of the first connector is not filtered
RunCollectFirstUnfiltered ==
    /\ pc = "loop"
    /\ call.op = "search_jobs"
    /\ cpc = "returned"
    /\ LET filtered == IF idx = 1 THEN [raised |-> FALSE, value |-> results]
                       ELSE FilterResults(results, job_search)
       IN  all_results' =
               IF filtered.raised THEN all_results
               ELSE all_results \o StampPlatform(filtered.value, Conn)
    /\ returned' = [returned EXCEPT ![Conn] = Returned(results, exit_path = "auth_failed")]
    /\ idx' = idx + 1
    /\ ClearCall
    /\ UNCHANGED <<job_search, platforms, pc, run_result, invoked>>
    /\ UNCHANGED <<driver, open_sessions, next_sid>>
    /\ UNCHANGED <<filterVars, normVars, otherVars>>

\* mutant of RunCollect: a listing whose id is already in all_results is
\* not added (deduplication across the sources)
RunCollectDedups ==
    /\ pc = "loop"
    /\ call.op = "search_jobs"
    /\ cpc = "returned"
    /\ LET filtered == FilterResults(results, job_search)
           Known(job) == \E k \in 1..Len(all_results) : all_results[k]["id"] = job["id"]
           Fresh(job) == ~Known(job)
       IN  all_results' =
               IF filtered.raised THEN all_results
               ELSE all_results \o StampPlatform(SelectSeq(filtered.value, Fresh), Conn)
    /\ returned' = [returned EXCEPT ![Conn] = Returned(results, exit_path = "auth_failed")]
    /\ idx' = idx + 1
    /\ ClearCall
    /\ UNCHANGED <<job_search, platforms, pc, run_result, invoked>>
    /\ UNCHANGED <<driver, open_sessions, next_sid>>
    /\ UNCHANGED <<filterVars, normVars, otherVars>>

\* search_jobs has returned: filter, stamp, extend; an exception raised by
\* the filter is caught by the same 'except Exception'
RunCollect ==
    /\ pc = "loop"
    /\ call.op = "search_jobs"
    /\ cpc = "returned"
    /\ LET filtered == FilterResults(results, job_search)
       IN  all_results' =
               IF filtered.raised THEN all_results
               ELSE all_results \o StampPlatform(filtered.value, Conn)
    /\ returned' = [returned EXCEPT ![Conn] = Returned(results, exit_path = "auth_failed")]
    /\ idx' = idx + 1
    /\ ClearCall
    /\ UNCHANGED <<job_search, platforms, pc, run_result, invoked>>
    /\ UNCHANGED <<driver, open_sessions, next_sid>>
    /\ UNCHANGED <<filterVars, normVars, otherVars>>

\* after the loop: all_results.sort(...); return all_results.  The sort is
\* outside the try block, so its TypeError leaves run()
RunSort ==
    /\ pc = "loop"
    /\ idx > Len(platforms)
    /\ call = NoCall
    /\ LET sorted == SortResults(all_results)
       IN  IF sorted.raised
           THEN pc' = "raised" /\ UNCHANGED run_result
           ELSE pc' = "done" /\ run_result' = sorted.value
    /\ UNCHANGED <<job_search, platforms, idx, all_results, returned, invoked>>
    /\ UNCHANGED <<connVars, filterVars, normVars, otherVars>>

Next ==
    \/ Enter
    \/ AuthChromeFails
    \/ AuthChromeStarts
    \/ AuthLoginSucceeds
    \/ AuthLoginFails
    \/ SearchCompletes
    \/ SearchFails
    \/ FiverrFallback
    \/ Finally
    \/ RunStart
    \/ RunCallSearch
    \/ RunSearchRaises
    \/ RunCollect
    \/ RunSort

Spec == Init /\ [][Next]_vars

----------------------------------------------------------------------------
(* The connectors on their own: a caller invokes authenticate, search_jobs *)
(* and get_job_details of the loaded connectors directly, in any order     *)

InitConnector ==
    /\ job_search = EmptyDict
    /\ \E section \in PlatformsSections : platforms = LoadPlatforms(section)
    /\ AgentIdle
    /\ ConnIdle
    /\ FilterIdle
    /\ NormIdle
    /\ OtherIdle

NextConnector ==
    \/ \E c \in Loaded : CallAuthenticate(c)
    \/ \E c \in Loaded : CallSearchJobs(c)
    \/ \E c \in Loaded : CallGetJobDetails(c)
    \/ \E c \in Loaded, j \in JobIds, d \in ApplicationData : ApplyToJob(c, j, d)
    \/ \E j \in JobIds, b \in BOOLEAN : SubmitApplication(j, b)
    \/ CallReturns
    \/ Enter
    \/ AuthChromeFails
    \/ AuthChromeStarts
    \/ AuthLoginSucceeds
    \/ AuthLoginFails
    \/ SearchCompletes
    \/ SearchFails
    \/ FiverrFallback
    \/ DetailsCompletes
    \/ DetailsFails
    \/ Finally

SpecConnector == InitConnector /\ [][NextConnector]_vars

----------------------------------------------------------------------------
(* _filter_results on its own: the argument and the configuration are      *)
(* drawn in the initial state, FilterCall applies the function             *)

\* a record that did not pass through the normalizer: no title key
UntitledJob == MkDict(<< <<"description", PyStr("Legacy php shop")>> >>)

\* a record whose title is None
NullTitleJob == NormalizeJobData(MkDict(<< <<"id", PyStr("105")>>, <<"title", PyNone>> >>))

FilterInputs ==
    {NormalizeJobData(r) :
        r \in {RawPython, RawPhp, RawSenior, RawNoDatetime, RawBuyer, RawInsight}}
    \cup {UntitledJob, NullTitleJob}

InitFilter ==
    /\ job_search \in JobSearchConfigs
    /\ platforms = <<>>
    /\ AgentIdle
    /\ ConnIdle
    /\ f_results \in SeqsUpTo(FilterInputs, MaxFilterLen)
    /\ f_out = Pending
    /\ f_again = Pending
    /\ NormIdle
    /\ OtherIdle

FilterCall ==
    /\ f_out = Pending
    /\ f_out' = FilterResults(f_results, job_search)
    /\ UNCHANGED <<f_results, f_again, agentVars, connVars, normVars, otherVars>>

\* the list _filter_results returned is filtered once more
FilterAgain ==
    /\ f_out # Pending
    /\ ~f_out.raised
    /\ f_again = Pending
    /\ f_again' = FilterResults(f_out.value, job_search)
    /\ UNCHANGED <<f_results, f_out, agentVars, connVars, normVars, otherVars>>

NextFilter == FilterCall \/ FilterAgain

SpecFilter == InitFilter /\ [][NextFilter]_vars

----------------------------------------------------------------------------
(* _normalize_job_data on its own *)

Absent == [absent |-> TRUE]

\* what a connector may have put under each key of raw_job
RawChoices ==
    [ title       : {Absent, PyStr("Python Developer"), PyStr("")},
      description : {Absent, PyStr("Build graphql APIs")},
      date_posted : {Absent, PyStr(""), PyStr("2024-01-10"), PyNone},
      skills      : {Absent, PyList(<<"graphql">>)},
      is_remote   : {Absent, PyBool(TRUE)},
      platform    : {Absent, PyStr("Fiverr")},
      duration    : {Absent, PyStr("3 days")} ]

RawOf(choice) == [k \in {x \in DOMAIN choice : choice[x] # Absent} |-> choice[k]]

RawJobs == {RawOf(c) : c \in RawChoices}

InitNormalize ==
    /\ job_search = EmptyDict
    /\ platforms = <<>>
    /\ AgentIdle
    /\ ConnIdle
    /\ FilterIdle
    /\ n_raw \in RawJobs
    /\ n_out = Pending
    /\ OtherIdle

NormalizeCall ==
    /\ n_out = Pending
    /\ n_out' = NormalizeJobData(n_raw)
    /\ UNCHANGED <<n_raw, agentVars, connVars, filterVars, otherVars>>

NextNormalize == NormalizeCall

SpecNormalize == InitNormalize /\ [][NextNormalize]_vars

----------------------------------------------------------------------------
(* Configuration files: load_config and validate_config *)

RequiredFields == {"user_profile", "job_search", "platforms"}
ProfileKeys == {"name", "skills", "experience", "resume_path"}
SearchKeys == {"job_types", "locations", "keywords"}

UserProfile ==
    [name |-> PyStr("Ann"), skills |-> PyList(<<"Python">>),
     experience |-> PyStr("5 years"), resume_path |-> PyStr("resume.pdf")]

SearchSection ==
    [job_types |-> <<"Contract">>, locations |-> <<"Remote">>,
     keywords |-> <<"python">>, exclude_keywords |-> <<"PHP">>]

\* a job_search section without exclude_keywords
SearchSectionPlain ==
    [job_types |-> <<"Contract">>, locations |-> <<"Remote">>, keywords |-> <<"python">>]

\* the scheduler section of the configuration
SchedulerDaily == [enabled |-> TRUE, frequency |-> "daily"]
SchedulerSections ==
    { SchedulerDaily,
      [enabled |-> TRUE],
      [enabled |-> TRUE, frequency |-> "Hourly"],
      [enabled |-> TRUE, frequency |-> "monthly"],
      [enabled |-> FALSE, frequency |-> "daily"] }

AllKnown == CHOOSE sec \in PlatformsSections : Len(sec) = 2
WithUnknown ==
    CHOOSE sec \in PlatformsSections :
        \E i \in 1..Len(sec) : sec[i].name \notin ConnectorModules

\* a complete configuration
DocFull ==
    [user_profile |-> UserProfile, job_search |-> SearchSection,
     platforms |-> AllKnown, scheduler |-> SchedulerDaily]

\* a complete configuration that enables a platform without a module and
\* has no scheduler section
DocUnknown ==
    [user_profile |-> UserProfile, job_search |-> SearchSectionPlain,
     platforms |-> WithUnknown]

\* configurations that validate_config rejects
DocNoProfile == [job_search |-> SearchSection, platforms |-> AllKnown]
DocNoSearch == [user_profile |-> UserProfile, platforms |-> AllKnown]
DocNoPlatforms == [user_profile |-> UserProfile, job_search |-> SearchSection]
DocShortProfile ==
    [user_profile |-> [name |-> PyStr("Ann")], job_search |-> SearchSection,
     platforms |-> AllKnown]

Docs == {DocFull, DocUnknown, DocNoProfile, DocNoSearch, DocNoPlatforms, DocShortProfile}

\* validate_config raises ValueError (or KeyError / TypeError)
ValidateConfigRaises(doc) ==
    \/ \E field \in RequiredFields : field \notin DOMAIN doc
    \/ ~(ProfileKeys \subseteq DOMAIN doc["user_profile"])
    \/ ~(SearchKeys \subseteq DOMAIN doc["job_search"])

\* mutant of LoadConfig: the document is returned without validation
LoadConfigUnvalidated(config_path) ==
    IF config_path = "" THEN files.default ELSE files.custom

\* load_config(config_path): the default path when none is given; None
\* when validation fails
LoadConfig(config_path) ==
    LET doc == IF config_path = "" THEN files.default ELSE files.custom
    IN  IF ValidateConfigRaises(doc) THEN PyNone ELSE doc

\* JobSearchAgent.__init__ raises: config is None or a key is missing
BuildRaises(cfg) == cfg = PyNone \/ ~(RequiredFields \subseteq DOMAIN cfg)

----------------------------------------------------------------------------
(* JobSearchScheduler: start(), stop() and the loop thread _run_scheduler.  *)
(* start() and stop() are called from one thread (position spc); every     *)
(* successful start() spawns a loop thread.  A scheduled run is seen from   *)
(* outside: it is entered, builds its agent, runs and saves, or fails.      *)

StartPositions == {"start_setup", "start_flag", "start_clear", "start_thread"}
StopPositions == {"stop_event", "stop_flag", "stop_clear"}

FreeThreads == {t \in Threads : thr[t] = "none"}

\* self.scheduler_config = self.config.get('scheduler', {})
SchedulerConfig == DictGet(s_config, "scheduler", EmptyDict)

\* setup_schedule() registers a job: the scheduler is enabled and the
\* frequency, lower-cased, is one of hourly, daily, weekly
ScheduleAccepted ==
    /\ DictGet(SchedulerConfig, "enabled", FALSE)
    /\ StrLower(DictGet(SchedulerConfig, "frequency", "daily"))
           \in {"hourly", "daily", "weekly"}

\* start() is entered: 'if self.is_running: return'
StartEntered == spc' = IF is_running THEN "idle" ELSE "start_setup"

\* stop() is entered: 'if not self.is_running: return'
StopEntered == spc' = IF is_running THEN "stop_event" ELSE "idle"

ClientStart ==
    /\ mpc = "none"
    /\ spc = "idle"
    /\ FreeThreads # {}
    /\ StartEntered
    /\ UNCHANGED <<s_config, is_running, stop_event, sched_jobs, thr, started, saved>>
    /\ UNCHANGED <<agentVars, connVars, filterVars, normVars, applyVars, mainVars, fiverrVars, pageVars>>

ClientStop ==
    /\ mpc = "none"
    /\ spc = "idle"
    /\ StopEntered
    /\ UNCHANGED <<s_config, is_running, stop_event, sched_jobs, thr, started, saved>>
    /\ UNCHANGED <<agentVars, connVars, filterVars, normVars, applyVars, mainVars, fiverrVars, pageVars>>

\* 'if not self.setup_schedule(): return'
SchedSetup ==
    /\ spc = "start_setup"
    /\ IF ScheduleAccepted
       THEN sched_jobs' = sched_jobs + 1 /\ spc' = "start_flag"
       ELSE sched_jobs' = sched_jobs /\ spc' = "idle"
    /\ UNCHANGED <<s_config, is_running, stop_event, thr, started, saved>>
    /\ UNCHANGED <<agentVars, connVars, filterVars, normVars, applyVars, mainVars, fiverrVars, pageVars>>

\* self.is_running = True
SchedSetRunning ==
    /\ spc = "start_flag"
    /\ is_running' = TRUE
    /\ spc' = "start_clear"
    /\ UNCHANGED <<s_config, stop_event, sched_jobs, thr, started, saved>>
    /\ UNCHANGED <<agentVars, connVars, filterVars, normVars, applyVars, mainVars, fiverrVars, pageVars>>

\* self._stop_event.clear()
SchedClearEvent ==
    /\ spc = "start_clear"
    /\ stop_event' = FALSE
    /\ spc' = "start_thread"
    /\ UNCHANGED <<s_config, is_running, sched_jobs, thr, started, saved>>
    /\ UNCHANGED <<agentVars, connVars, filterVars, normVars, applyVars, mainVars, fiverrVars, pageVars>>

\* thread = threading.Thread(target=self._run_scheduler); thread.start()
SchedSpawn ==
    /\ spc = "start_thread"
    /\ FreeThreads # {}
    /\ LET t == CHOOSE x \in FreeThreads : \A y \in FreeThreads : x <= y
       IN  thr' = [thr EXCEPT ![t] = "check"]
    /\ spc' = "idle"
    /\ UNCHANGED <<s_config, is_running, stop_event, sched_jobs, started, saved>>
    /\ UNCHANGED <<agentVars, connVars, filterVars, normVars, applyVars, mainVars, fiverrVars, pageVars>>

\* self._stop_event.set()
SchedStopSetEvent ==
    /\ spc = "stop_event"
    /\ stop_event' = TRUE
    /\ spc' = "stop_flag"
    /\ UNCHANGED <<s_config, is_running, sched_jobs, thr, started, saved>>
    /\ UNCHANGED <<agentVars, connVars, filterVars, normVars, applyVars, mainVars, fiverrVars, pageVars>>

\* self.is_running = False
SchedStopFlag ==
    /\ spc = "stop_flag"
    /\ is_running' = FALSE
    /\ spc' = "stop_clear"
    /\ UNCHANGED <<s_config, stop_event, sched_jobs, thr, started, saved>>
    /\ UNCHANGED <<agentVars, connVars, filterVars, normVars, applyVars, mainVars, fiverrVars, pageVars>>

\* mutant of SchedStopClear: stop() returns without schedule.clear()
SchedStopKeepsJobs ==
    /\ spc = "stop_clear"
    /\ spc' = "idle"
    /\ UNCHANGED <<s_config, is_running, stop_event, sched_jobs, thr, started, saved>>
    /\ UNCHANGED <<agentVars, connVars, filterVars, normVars, applyVars, mainVars, fiverrVars, pageVars>>

\* schedule.clear(), then stop() returns
SchedStopClear ==
    /\ spc = "stop_clear"
    /\ sched_jobs' = 0
    /\ spc' = "idle"
    /\ UNCHANGED <<s_config, is_running, stop_event, thr, started, saved>>
    /\ UNCHANGED <<agentVars, connVars, filterVars, normVars, applyVars, mainVars, fiverrVars, pageVars>>

\* 'while not self._stop_event.is_set()'
LoopCheck(t) ==
    /\ thr[t] = "check"
    /\ thr' = [thr EXCEPT ![t] = IF stop_event THEN "stopped" ELSE "pending"]
    /\ UNCHANGED <<s_config, is_running, stop_event, sched_jobs, spc, started, saved>>
    /\ UNCHANGED <<agentVars, connVars, filterVars, normVars, applyVars, mainVars, fiverrVars, pageVars>>

\* schedule.run_pending() collects the registered jobs that are due
\* (sorted(job for job in self.jobs if job.should_run)) before it calls them
LoopRunPending(t) ==
    /\ thr[t] = "pending"
    /\ \E due \in BOOLEAN :
          thr' = [thr EXCEPT ![t] =
                     IF sched_jobs > 0 /\ due /\ started < MaxRuns
                     THEN "selected" ELSE "sleep"]
    /\ UNCHANGED <<s_config, is_running, stop_event, sched_jobs, spc, started, saved>>
    /\ UNCHANGED <<agentVars, connVars, filterVars, normVars, applyVars, mainVars, fiverrVars, pageVars>>

\* run_pending() calls the job it collected: _run_job_search is entered
LoopCallJob(t) ==
    /\ thr[t] = "selected"
    /\ thr' = [thr EXCEPT ![t] = "build"]
    /\ started' = started + 1
    /\ UNCHANGED <<s_config, is_running, stop_event, sched_jobs, spc, saved>>
    /\ UNCHANGED <<agentVars, connVars, filterVars, normVars, applyVars, mainVars, fiverrVars, pageVars>>

\* agent = JobSearchAgent(self.config); an exception is caught by the
\* 'except Exception' of _run_job_search, which returns False
LoopBuildAgent(t) ==
    /\ thr[t] = "build"
    /\ thr' = [thr EXCEPT ![t] = IF BuildRaises(s_config) THEN "sleep" ELSE "run"]
    /\ UNCHANGED <<s_config, is_running, stop_event, sched_jobs, spc, started, saved>>
    /\ UNCHANGED <<agentVars, connVars, filterVars, normVars, applyVars, mainVars, fiverrVars, pageVars>>

\* agent.run() returned and agent.save_results(...) wrote the reports
LoopRunSucceeds(t) ==
    /\ thr[t] = "run"
    /\ saved' = saved + 1
    /\ thr' = [thr EXCEPT ![t] = "sleep"]
    /\ UNCHANGED <<s_config, is_running, stop_event, sched_jobs, spc, started>>
    /\ UNCHANGED <<agentVars, connVars, filterVars, normVars, applyVars, mainVars, fiverrVars, pageVars>>

\* mutant of LoopRunFails: the exception is not caught, leaves run_pending
\* and ends the loop thread
LoopRunFailsEndsThread(t) ==
    /\ thr[t] = "run"
    /\ thr' = [thr EXCEPT ![t] = "stopped"]
    /\ UNCHANGED <<s_config, is_running, stop_event, sched_jobs, spc, started, saved>>
    /\ UNCHANGED <<agentVars, connVars, filterVars, normVars, applyVars, mainVars, fiverrVars, pageVars>>

\* agent.run() or save_results raised: logged, _run_job_search returns False
LoopRunFails(t) ==
    /\ thr[t] = "run"
    /\ thr' = [thr EXCEPT ![t] = "sleep"]
    /\ UNCHANGED <<s_config, is_running, stop_event, sched_jobs, spc, started, saved>>
    /\ UNCHANGED <<agentVars, connVars, filterVars, normVars, applyVars, mainVars, fiverrVars, pageVars>>

\* time.sleep(60) is over
LoopWake(t) ==
    /\ thr[t] = "sleep"
    /\ thr' = [thr EXCEPT ![t] = "check"]
    /\ UNCHANGED <<s_config, is_running, stop_event, sched_jobs, spc, started, saved>>
    /\ UNCHANGED <<agentVars, connVars, filterVars, normVars, applyVars, mainVars, fiverrVars, pageVars>>

\* the steps of start() and stop() after their entry
SchedSteps ==
    \/ SchedSetup
    \/ SchedSetRunning
    \/ SchedClearEvent
    \/ SchedSpawn
    \/ SchedStopSetEvent
    \/ SchedStopFlag
    \/ SchedStopClear

\* the steps of the loop threads
LoopSteps ==
    \/ \E t \in Threads : LoopCheck(t)
    \/ \E t \in Threads : LoopRunPending(t)
    \/ \E t \in Threads : LoopCallJob(t)
    \/ \E t \in Threads : LoopBuildAgent(t)
    \/ \E t \in Threads : LoopRunSucceeds(t)
    \/ \E t \in Threads : LoopRunFails(t)
    \/ \E t \in Threads : LoopWake(t)

\* the configurations a scheduler is constructed with
SchedulerDocs ==
    {[DocFull EXCEPT !.scheduler = sec] : sec \in SchedulerSections} \cup {DocUnknown}

\* a JobSearchScheduler has been constructed from a valid configuration
InitScheduler ==
    /\ job_search = EmptyDict
    /\ platforms = <<>>
    /\ AgentIdle
    /\ ConnIdle
    /\ FilterIdle
    /\ NormIdle
    /\ ApplyIdle
    /\ MainIdle
    /\ FiverrIdle
    /\ PageIdle
    /\ s_config \in SchedulerDocs
    /\ is_running = FALSE
    /\ stop_event = FALSE
    /\ sched_jobs = 0
    /\ spc = "idle"
    /\ thr = [t \in Threads |-> "none"]
    /\ started = 0
    /\ saved = 0

NextScheduler ==
    \/ ClientStart
    \/ ClientStop
    \/ SchedSteps
    \/ LoopSteps

SpecScheduler == InitScheduler /\ [][NextScheduler]_vars

----------------------------------------------------------------------------
(* main(): load the configuration, then either one search or the scheduler *)

\* config = load_config(args.config); 'if not config: sys.exit(1)'
MainLoadConfig ==
    /\ mpc = "start"
    /\ config' = LoadConfig(args.config)
    /\ mpc' = IF config' = PyNone THEN "exit_1"
              ELSE IF args.schedule THEN "scheduler" ELSE "one_time"
    /\ UNCHANGED <<args, files>>
    /\ UNCHANGED <<agentVars, connVars, filterVars, normVars, applyVars, schedVars, fiverrVars, pageVars>>

\* run_one_time_search: agent = JobSearchAgent(config).  __init__ reads
\* config['user_profile'], config['job_search'] and, in _load_platforms,
\* config['platforms']; an exception is re-raised and main() exits with 1
MainBuildAgent ==
    /\ mpc = "one_time"
    /\ IF BuildRaises(config)
       THEN /\ mpc' = "exit_1"
            /\ UNCHANGED <<job_search, platforms, pc>>
       ELSE /\ job_search' = config["job_search"]
            /\ platforms' = LoadPlatforms(config["platforms"])
            /\ pc' = "idle"
            /\ mpc' = "running"
    /\ UNCHANGED <<idx, all_results, run_result, returned, invoked, args, files, config>>
    /\ UNCHANGED <<connVars, filterVars, normVars, applyVars, schedVars, fiverrVars, pageVars>>

\* results = agent.run() returned; save_results, display_summary; main()
\* logs its completion
MainRunReturns ==
    /\ mpc = "running"
    /\ pc = "done"
    /\ mpc' = "exit_0"
    /\ UNCHANGED <<args, files, config>>
    /\ UNCHANGED <<agentVars, connVars, filterVars, normVars, applyVars, schedVars, fiverrVars, pageVars>>

\* agent.run() raised: run_one_time_search re-raises, main() calls sys.exit(1)
MainRunRaises ==
    /\ mpc = "running"
    /\ pc = "raised"
    /\ mpc' = "exit_1"
    /\ UNCHANGED <<args, files, config>>
    /\ UNCHANGED <<agentVars, connVars, filterVars, normVars, applyVars, schedVars, fiverrVars, pageVars>>

\* run_scheduler: scheduler = JobSearchScheduler().  The constructor loads
\* the default configuration file; when load_config returns None,
\* self.config.get raises AttributeError and main() exits with 1
MainRunScheduler ==
    /\ mpc = "scheduler"
    /\ s_config' = LoadConfig("")
    /\ IF s_config' = PyNone
       THEN mpc' = "exit_1" /\ spc' = spc
       ELSE mpc' = "starting" /\ spc' = "idle"
    /\ UNCHANGED <<is_running, stop_event, sched_jobs, thr, started, saved>>
    /\ UNCHANGED <<args, files, config>>
    /\ UNCHANGED <<agentVars, connVars, filterVars, normVars, applyVars, fiverrVars, pageVars>>

\* scheduler.start() is entered; afterwards main() sleeps in its loop
MainStartsScheduler ==
    /\ mpc = "starting"
    /\ spc = "idle"
    /\ StartEntered
    /\ mpc' = "waiting"
    /\ UNCHANGED <<s_config, is_running, stop_event, sched_jobs, thr, started, saved>>
    /\ UNCHANGED <<args, files, config>>
    /\ UNCHANGED <<agentVars, connVars, filterVars, normVars, applyVars, fiverrVars, pageVars>>

\* KeyboardInterrupt in the sleep loop: scheduler.stop() is entered
MainInterrupt ==
    /\ mpc = "waiting"
    /\ spc = "idle"
    /\ StopEntered
    /\ mpc' = "stopping"
    /\ UNCHANGED <<s_config, is_running, stop_event, sched_jobs, thr, started, saved>>
    /\ UNCHANGED <<args, files, config>>
    /\ UNCHANGED <<agentVars, connVars, filterVars, normVars, applyVars, fiverrVars, pageVars>>

\* stop() returned, run_scheduler and main() return and the process ends;
\* the loop threads are daemon threads and end with it
MainSchedulerExit ==
    /\ mpc = "stopping"
    /\ spc = "idle"
    /\ mpc' = "exit_0"
    /\ thr' = [t \in Threads |-> IF thr[t] = "none" THEN "none" ELSE "killed"]
    /\ UNCHANGED <<s_config, is_running, stop_event, sched_jobs, spc, started, saved>>
    /\ UNCHANGED <<args, files, config>>
    /\ UNCHANGED <<agentVars, connVars, filterVars, normVars, applyVars, fiverrVars, pageVars>>

\* the command lines and configuration files main() is started with; the
\* file a command line does not read is the complete one
MainInputs ==
    {inp \in [args : [schedule : BOOLEAN, config : {"", "custom"}],
              files : [default : Docs, custom : Docs]] :
        /\ (~inp.args.schedule /\ inp.args.config = "custom") => inp.files.default = DocFull
        /\ inp.args.config = "" => inp.files.custom = DocFull}

InitMain ==
    /\ job_search = EmptyDict
    /\ platforms = <<>>
    /\ pc = "none"
    /\ idx = 0
    /\ all_results = <<>>
    /\ run_result = <<>>
    /\ returned = [n \in ConnectorModules |-> NotCalled]
    /\ invoked = <<>>
    /\ ConnIdle
    /\ FilterIdle
    /\ NormIdle
    /\ ApplyIdle
    /\ SchedIdle
    /\ FiverrIdle
    /\ PageIdle
    /\ \E inp \in MainInputs : args = inp.args /\ files = inp.files
    /\ config = PyNone
    /\ mpc = "start"

NextMain ==
    \/ MainLoadConfig
    \/ MainBuildAgent
    \/ Next
    \/ MainRunReturns
    \/ MainRunRaises
    \/ MainRunScheduler
    \/ MainStartsScheduler
    \/ MainInterrupt
    \/ MainSchedulerExit
    \/ SchedSteps
    \/ LoopSteps

SpecMain == InitMain /\ [][NextMain]_vars

----------------------------------------------------------------------------
(* JobSearchScheduler._run_job_search, called again and again by the loop   *)
(* thread: every call builds a new agent, with new connectors, and runs it  *)

\* the configurations the scheduled runs are made with
RunDocs == {[DocFull EXCEPT !.platforms = sec] : sec \in PlatformsSections} \cup {DocUnknown}

\* _run_job_search is entered: agent = JobSearchAgent(self.config); an
\* exception of the constructor is caught and False is returned
JobSearchEnter ==
    /\ pc = "none"
    /\ started < MaxRuns
    /\ started' = started + 1
    /\ IF BuildRaises(s_config)
       THEN UNCHANGED <<job_search, platforms, pc, driver>>
       ELSE /\ job_search' = s_config["job_search"]
            /\ platforms' = LoadPlatforms(s_config["platforms"])
            /\ pc' = "idle"
            /\ driver' = [n \in ConnectorModules |-> NoDriver]
    /\ idx' = 0
    /\ all_results' = <<>>
    /\ run_result' = <<>>
    /\ returned' = [n \in ConnectorModules |-> NotCalled]
    /\ invoked' = <<>>
    /\ UNCHANGED <<open_sessions, next_sid, call, cpc, results, details, auth_ok, used_sid,
                   exit_path>>
    /\ UNCHANGED <<s_config, is_running, stop_event, sched_jobs, spc, thr, saved>>
    /\ UNCHANGED <<filterVars, normVars, applyVars, mainVars, fiverrVars, pageVars>>

\* agent.run() returned; save_results, _send_notifications, return True
JobSearchReturnsTrue ==
    /\ started > 0
    /\ pc = "done"
    /\ pc' = "none"
    /\ saved' = saved + 1
    /\ UNCHANGED <<job_search, platforms, idx, all_results, run_result, returned, invoked>>
    /\ UNCHANGED <<s_config, is_running, stop_event, sched_jobs, spc, thr, started>>
    /\ UNCHANGED <<connVars, filterVars, normVars, applyVars, mainVars, fiverrVars, pageVars>>

\* agent.run() raised: 'except Exception' logs it and returns False
JobSearchReturnsFalse ==
    /\ started > 0
    /\ pc = "raised"
    /\ pc' = "none"
    /\ UNCHANGED <<job_search, platforms, idx, all_results, run_result, returned, invoked>>
    /\ UNCHANGED <<schedVars, connVars, filterVars, normVars, applyVars, mainVars, fiverrVars, pageVars>>

InitRuns ==
    /\ job_search = EmptyDict
    /\ platforms = <<>>
    /\ pc = "none"
    /\ idx = 0
    /\ all_results = <<>>
    /\ run_result = <<>>
    /\ returned = [n \in ConnectorModules |-> NotCalled]
    /\ invoked = <<>>
    /\ ConnIdle
    /\ FilterIdle
    /\ NormIdle
    /\ ApplyIdle
    /\ MainIdle
    /\ FiverrIdle
    /\ PageIdle
    /\ s_config \in RunDocs
    /\ is_running = FALSE
    /\ stop_event = FALSE
    /\ sched_jobs = 0
    /\ spc = "none"
    /\ thr = [t \in Threads |-> "none"]
    /\ started = 0
    /\ saved = 0

NextRuns ==
    \/ JobSearchEnter
    \/ Next
    \/ JobSearchReturnsTrue
    \/ JobSearchReturnsFalse

SpecRuns == InitRuns /\ [][NextRuns]_vars

----------------------------------------------------------------------------
(* FiverrConnector.search_jobs on its regular path: for every keyword,     *)
(* _extract_buyer_requests walks the rows of the buyer requests table      *)

MaxKeywords == 2     \* longest keyword list of a Fiverr search

Digits == "0123456789"

RECURSIVE IntStr(_)
\* str(n) of a non-negative int, as an f-string formats it
IntStr(n) ==
    IF n < 10 THEN CharAt(Digits, n + 1)
    ELSE IntStr(n \div 10) \o CharAt(Digits, (n % 10) + 1)

\* int(time.time()) when the search begins
Epoch == 1704844800

\* rows of the buyer requests table
RowPhp == [description |-> "Need a Php script", buyer |-> "bob", delivery_time |-> "3 days"]
RowPython == [description |-> "Python bot", buyer |-> "eve", delivery_time |-> ""]
RowLogo == [description |-> "Logo design", buyer |-> "joe", delivery_time |-> ""]
FiverrRows == {RowPhp, RowPython, RowLogo}

FiverrKeywords == {"php", "Python"}

\* keyword lists without repetition
KeywordLists ==
    {kws \in UNION {[1..n -> FiverrKeywords] : n \in 1..MaxKeywords} :
        \A i, j \in 1..Len(kws) : i # j => kws[i] # kws[j]}

\* request_id = f"fiverr_request_{int(time.time())}_{len(requests)}"
RequestId(now, requests) ==
    "fiverr_request_" \o IntStr(now) \o "_" \o IntStr(Len(requests))

\* job_data of a row (fiverr.py:243-258)
BuyerRequest(row, now, requests) ==
    LET job_data ==
            MkDict(<< <<"id", PyStr(RequestId(now, requests))>>,
                      <<"title", PyStr("Buyer Request: "
                                       \o SubSeq(row.description, 1,
                                                 Min(50, Len(row.description)))
                                       \o "...")>>,
                      <<"company", PyStr("Fiverr Buyer: " \o row.buyer)>>,
                      <<"description", PyStr(row.description)>>,
                      <<"salary", PyStr("")>>,
                      <<"date_posted", PyStr("2024-01-10")>>,
                      <<"job_type", PyStr("Freelance")>>,
                      <<"platform", PyStr("Fiverr")>>,
                      <<"url", PyStr("sellers/buyer-requests")>>,
                      <<"is_remote", PyBool(TRUE)>> >>)
    IN  NormalizeJobData(IF row.delivery_time # ""
                         THEN DictSet(job_data, "duration", PyStr(row.delivery_time))
                         ELSE job_data)

FvSearching == fv_k >= 1 /\ fv_k <= Len(fv_keywords)

\* a second passes
FvTick ==
    /\ FvSearching
    /\ fv_now < Epoch + MaxTick
    /\ fv_now' = fv_now + 1
    /\ UNCHANGED <<fv_keywords, fv_rows, fv_k, fv_r, fv_requests, fv_results>>
    /\ UNCHANGED <<agentVars, connVars, filterVars, normVars, applyVars, mainVars, schedVars, pageVars>>

\* one pass of 'for row in request_rows': a row whose description does not
\* contain the keyword is skipped, another is appended to requests
FvRow ==
    /\ FvSearching
    /\ fv_r <= Len(fv_rows)
    /\ LET row == fv_rows[fv_r]
           keyword_lower == StrLower(fv_keywords[fv_k])
       IN  fv_requests' =
               IF StrContains(keyword_lower, StrLower(row.description))
               THEN Append(fv_requests, BuyerRequest(row, fv_now, fv_requests))
               ELSE fv_requests
    /\ fv_r' = fv_r + 1
    /\ UNCHANGED <<fv_keywords, fv_rows, fv_now, fv_k, fv_results>>
    /\ UNCHANGED <<agentVars, connVars, filterVars, normVars, applyVars, mainVars, schedVars, pageVars>>

\* an element of the row is missing: the exception is logged, the row skipped
FvRowFails ==
    /\ FvSearching
    /\ fv_r <= Len(fv_rows)
    /\ fv_r' = fv_r + 1
    /\ UNCHANGED <<fv_keywords, fv_rows, fv_now, fv_k, fv_requests, fv_results>>
    /\ UNCHANGED <<agentVars, connVars, filterVars, normVars, applyVars, mainVars, schedVars, pageVars>>

\* _extract_buyer_requests returns; 'if requests: results.extend(requests)'
\* and the loop goes on with the next keyword
FvKeywordDone ==
    /\ FvSearching
    /\ fv_r > Len(fv_rows)
    /\ fv_results' = fv_results \o fv_requests
    /\ fv_requests' = <<>>
    /\ fv_k' = fv_k + 1
    /\ fv_r' = 1
    /\ UNCHANGED <<fv_keywords, fv_rows, fv_now>>
    /\ UNCHANGED <<agentVars, connVars, filterVars, normVars, applyVars, mainVars, schedVars, pageVars>>

InitFiverr ==
    /\ job_search = EmptyDict
    /\ platforms = <<>>
    /\ AgentIdle
    /\ ConnIdle
    /\ FilterIdle
    /\ NormIdle
    /\ ApplyIdle
    /\ MainIdle
    /\ SchedIdle
    /\ PageIdle
    /\ fv_keywords \in KeywordLists
    /\ fv_rows \in SeqsUpTo(FiverrRows, MaxRows)
    /\ fv_now = Epoch
    /\ fv_k = 1
    /\ fv_r = 1
    /\ fv_requests = <<>>
    /\ fv_results = <<>>

NextFiverr == FvTick \/ FvRow \/ FvRowFails \/ FvKeywordDone

SpecFiverr == InitFiverr /\ [][NextFiverr]_vars

----------------------------------------------------------------------------
(* The query loop of search_jobs in the Indeed, LinkedIn and Upwork         *)
(* connectors: for every query the first result page is extracted, then    *)
(* the pagination loop follows the 'next' button                           *)

PagingConnectors == {"indeed", "linkedin", "upwork"}

\* max_pages = 3
max_pages == 3

\* page_results of one result page, as results.extend(page_results) adds it
Page(q, n) == [query |-> q, page |-> n]

\* the pagination of the current query is over: the for loop takes the next
\* query, or search_jobs leaves its try block
EndQuery(kind) ==
    /\ pg_exit' = Append(pg_exit, kind)
    /\ IF pg_q < pg_queries
       THEN pg_q' = pg_q + 1 /\ pg_pc' = "first"
       ELSE pg_q' = pg_q /\ pg_pc' = "done"

\* the search page of the query loads and its first page is extracted;
\* max_pages = 3; current_page = 1
PgFirstPage ==
    /\ pg_pc = "first"
    /\ pg_results' = Append(pg_results, Page(pg_q, 1))
    /\ current_page' = 1
    /\ pg_pc' = "while"
    /\ UNCHANGED <<pg_conn, pg_queries, pg_q, pg_exit>>
    /\ UNCHANGED <<agentVars, connVars, filterVars, normVars, applyVars, mainVars, schedVars,
                   fiverrVars>>

\* loading the search page raises, outside the try of the pagination: the
\* 'except Exception' of search_jobs ends the search
PgFirstFails ==
    /\ pg_pc = "first"
    /\ pg_pc' = "failed"
    /\ UNCHANGED <<pg_conn, pg_queries, pg_q, current_page, pg_results, pg_exit>>
    /\ UNCHANGED <<agentVars, connVars, filterVars, normVars, applyVars, mainVars, schedVars,
                   fiverrVars>>

\* mutant of PgWhile: the loop condition is current_page <= max_pages
PgWhileOffByOne ==
    /\ pg_pc = "while"
    /\ IF current_page <= max_pages
       THEN pg_pc' = "next" /\ UNCHANGED <<pg_q, pg_exit>>
       ELSE EndQuery("limit")
    /\ UNCHANGED <<pg_conn, pg_queries, current_page, pg_results>>
    /\ UNCHANGED <<agentVars, connVars, filterVars, normVars, applyVars, mainVars, schedVars,
                   fiverrVars>>

\* 'while current_page < max_pages'
PgWhile ==
    /\ pg_pc = "while"
    /\ IF current_page < max_pages
       THEN pg_pc' = "next" /\ UNCHANGED <<pg_q, pg_exit>>
       ELSE EndQuery("limit")
    /\ UNCHANGED <<pg_conn, pg_queries, current_page, pg_results>>
    /\ UNCHANGED <<agentVars, connVars, filterVars, normVars, applyVars, mainVars, schedVars,
                   fiverrVars>>

\* the next button is there and enabled: click, wait for the listings,
\* results.extend(page_results); current_page += 1
PgNextFound ==
    /\ pg_pc = "next"
    /\ pg_results' = Append(pg_results, Page(pg_q, current_page + 1))
    /\ current_page' = current_page + 1
    /\ pg_pc' = "while"
    /\ UNCHANGED <<pg_conn, pg_queries, pg_q, pg_exit>>
    /\ UNCHANGED <<agentVars, connVars, filterVars, normVars, applyVars, mainVars, schedVars,
                   fiverrVars>>

\* the next button is missing or disabled: break.  LinkedIn looks the
\* button up with find_element outside any inner try, so a missing button
\* is a NoSuchElementException that the 'except Exception' of the
\* pagination catches
PgNextUnavailable ==
    /\ pg_pc = "next"
    /\ \E button \in {"missing", "disabled"} :
           EndQuery(IF button = "missing" /\ pg_conn = "linkedin" THEN "error" ELSE button)
    /\ UNCHANGED <<pg_conn, pg_queries, current_page, pg_results>>
    /\ UNCHANGED <<agentVars, connVars, filterVars, normVars, applyVars, mainVars, schedVars,
                   fiverrVars>>

\* the click or the wait for the next page raises: 'except Exception' of
\* the pagination logs a warning
PgNextFails ==
    /\ pg_pc = "next"
    /\ EndQuery("error")
    /\ UNCHANGED <<pg_conn, pg_queries, current_page, pg_results>>
    /\ UNCHANGED <<agentVars, connVars, filterVars, normVars, applyVars, mainVars, schedVars,
                   fiverrVars>>

\* search_jobs is about to process its first query
InitPagination ==
    /\ job_search = EmptyDict
    /\ platforms = <<>>
    /\ AgentIdle
    /\ ConnIdle
    /\ FilterIdle
    /\ NormIdle
    /\ ApplyIdle
    /\ MainIdle
    /\ SchedIdle
    /\ FiverrIdle
    /\ pg_conn \in PagingConnectors
    /\ pg_queries \in 1..MaxQueries
    /\ pg_q = 1
    /\ pg_pc = "first"
    /\ current_page = 0
    /\ pg_results = <<>>
    /\ pg_exit = <<>>

NextPagination ==
    \/ PgFirstPage
    \/ PgFirstFails
    \/ PgWhile
    \/ PgNextFound
    \/ PgNextUnavailable
    \/ PgNextFails

\* the thread that runs search_jobs is not held up: every statement
\* returns or raises (the waits have timeouts)
SpecPagination == InitPagination /\ [][NextPagination]_vars /\ WF_vars(NextPagination)

----------------------------------------------------------------------------
(* Vocabulary of the properties *)

ExcludeKeywords == DictGet(job_search, "exclude_keywords", <<>>)

\* two characters that are equal up to the case of an ASCII letter
SameLetter(a, b) ==
    \/ a = b
    \/ \E i \in 1..Len(UpperCase) : {a, b} = {CharAt(UpperCase, i), CharAt(LowerCase, i)}

\* kw occurs in text at some offset, letters compared without regard to case
OccursIgnoringCase(kw, text) ==
    \E off \in 0..(Len(text) - Len(kw)) :
        \A j \in 1..Len(kw) : SameLetter(CharAt(kw, j), CharAt(text, off + j))

HasStrTexts(job) == IsStr(StrField(job, "title")) /\ IsStr(StrField(job, "description"))

\* no exclusion keyword occurs in the title or in the description
PassesExclusion(job) ==
    ~\E i \in 1..Len(ExcludeKeywords) :
        \/ OccursIgnoringCase(ExcludeKeywords[i], StrField(job, "title").str)
        \/ OccursIgnoringCase(ExcludeKeywords[i], StrField(job, "description").str)

Stamped(job, p) == DictSet(job, "platform", PyStr(p))

RunOver == pc \in {"done", "raised"}

SearchReturned(p) == returned[p].status = "returned"

\* the connector's search_jobs raised, or returned after authenticate() failed
ConnectorFailed(p) ==
    \/ returned[p] = Raised
    \/ SearchReturned(p) /\ returned[p].auth_failed

DateOf(job) == job["date_posted"]

RECURSIVE MergedUpTo(_)
\* the listings that pass the exclusion rule, stamped, connector after
\* connector in the order of self.platforms, each batch in its own order
MergedUpTo(n) ==
    IF n = 0 THEN <<>>
    ELSE LET p == platforms[n]
             batch == IF SearchReturned(p)
                      THEN SelectSeq(returned[p].value, PassesExclusion)
                      ELSE <<>>
         IN  MergedUpTo(n - 1) \o [i \in 1..Len(batch) |-> Stamped(batch[i], p)]

----------------------------------------------------------------------------
(* Properties of run(), checked under Spec (C3: under SpecConnector) *)

\* C1: partial-failure isolation.  When a connector's search_jobs raised or
\* its authentication failed, run still has a result; the failed connector
\* has no listing in it, and every listing any connector returned that
\* passes the exclusion rule is in it, stamped with that connector's name.
C1_PartialFailureIsolation ==
    (RunOver /\ \E p \in Loaded : ConnectorFailed(p)) =>
        /\ pc = "done"
        /\ \A p \in Loaded : ConnectorFailed(p) =>
               \A k \in 1..Len(run_result) : run_result[k]["platform"] # PyStr(p)
        /\ \A p \in Loaded : SearchReturned(p) =>
               \A i \in 1..Len(returned[p].value) :
                   PassesExclusion(returned[p].value[i]) =>
                       \E k \in 1..Len(run_result) :
                           run_result[k] = Stamped(returned[p].value[i], p)

\* C2: no failure of a connector or of a listing leaves run(): whatever the
\* connectors did, run never ends by raising.
C2_RunNeverRaises == pc # "raised"

\* C3 as stated: after search_jobs or get_job_details of any connector has
\* returned, the connector's _driver is None and the session the call had
\* is no longer open.
C3_NoSessionAfterReturn ==
    (cpc = "returned" /\ call.op \in {"search_jobs", "get_job_details"}) =>
        /\ driver[Conn] = NoDriver
        /\ used_sid \notin open_sessions

\* C3 amended: the same for search_jobs of every connector and for
\* get_job_details of every connector that implements it (all but Fiverr,
\* whose get_job_details is a stub that never touches the session).
C3_SessionReleased ==
    (/\ cpc = "returned"
     /\ \/ call.op = "search_jobs"
        \/ call.op = "get_job_details" /\ Conn # "fiverr") =>
        /\ driver[Conn] = NoDriver
        /\ used_sid \notin open_sessions

\* search_jobs has returned through Fiverr's early return, and the call
\* had opened a session
C3_Witness ==
    /\ cpc = "returned"
    /\ call.op = "search_jobs"
    /\ exit_path = "early_return"
    /\ used_sid # NoDriver

\* C5: the list run returns is in descending order of date_posted, and a
\* listing with an empty date_posted is never in front of one with a date.
C5_SortedByDateDescending ==
    pc = "done" =>
        \A i, j \in 1..Len(run_result) :
            i < j =>
                /\ ~StrLess(DateOf(run_result[i]).str, DateOf(run_result[j]).str)
                /\ DateOf(run_result[i]) = PyStr("") => DateOf(run_result[j]) = PyStr("")

\* the sort had to move listings: an undated one, and two different dates
C5_Witness ==
    /\ pc = "done"
    /\ run_result # all_results
    /\ \E i, j, k \in 1..Len(run_result) :
           /\ DateOf(run_result[i]) = PyStr("2024-01-12")
           /\ DateOf(run_result[j]) = PyStr("2024-01-10")
           /\ DateOf(run_result[k]) = PyStr("")

WithDate(jobs, d) ==
    LET HasDate(job) == DateOf(job) = d
    IN  SelectSeq(jobs, HasDate)

\* C6: listings of the result with the same date_posted are in insertion
\* order: earlier connector first, and the connector's own order within it.
C6_SortStable ==
    pc = "done" =>
        \A k \in 1..Len(run_result) :
            WithDate(run_result, DateOf(run_result[k]))
                = WithDate(MergedUpTo(Len(platforms)), DateOf(run_result[k]))

\* two connectors contributed listings with the same date, and the sort
\* changed the order of the list
C6_Witness ==
    /\ pc = "done"
    /\ run_result # all_results
    /\ \E i, j \in 1..Len(run_result) :
           /\ i < j
           /\ DateOf(run_result[i]) = DateOf(run_result[j])
           /\ run_result[i]["platform"] # run_result[j]["platform"]

\* C7: every listing of the result has a platform tag, and it is the
\* configuration name of a connector whose search_jobs returned that
\* listing, whatever platform value the connector wrote itself.
C7_SourceStamped ==
    pc = "done" =>
        \A k \in 1..Len(run_result) :
            /\ "platform" \in DOMAIN run_result[k]
            /\ \E p \in Loaded :
                   /\ run_result[k]["platform"] = PyStr(p)
                   /\ SearchReturned(p)
                   /\ \E i \in 1..Len(returned[p].value) :
                          run_result[k] = Stamped(returned[p].value[i], p)

\* a Fiverr buyer request, which the connector built with platform 'Fiverr',
\* is in the result
C7_Witness ==
    /\ pc = "done"
    /\ \E k \in 1..Len(run_result) :
           /\ run_result[k]["id"] = RawBuyer["id"]
           /\ run_result[k]["platform"] = PyStr("fiverr")

\* connector A (linkedin) returned the Python listing of 2024-01-10,
\* connector B (indeed) the PHP listing of 2024-01-12, under exclude ["PHP"]
EndToEndScenario ==
    /\ platforms = <<"linkedin", "indeed">>
    /\ ExcludeKeywords = <<"PHP">>
    /\ returned["linkedin"] = Returned(<<NormalizeJobData(RawPython)>>, FALSE)
    /\ returned["indeed"] = Returned(<<NormalizeJobData(RawPhp)>>, FALSE)

\* C8: in the end-to-end scenario run returns exactly one listing, the
\* Python Developer one, with source A.
C8_EndToEnd ==
    (RunOver /\ EndToEndScenario) =>
        /\ pc = "done"
        /\ Len(run_result) = 1
        /\ run_result[1]["title"] = PyStr("Python Developer")
        /\ run_result[1]["platform"] = PyStr("linkedin")

C8_Witness == pc = "done" /\ EndToEndScenario

----------------------------------------------------------------------------
(* Properties of _filter_results, checked under SpecFilter *)

\* C4: with a non-empty exclusion list, _filter_results keeps exactly the
\* listings in which no keyword occurs, case ignored, in title or
\* description, and keeps them in their order.
C4_FilterPredicate ==
    (/\ f_out # Pending
     /\ ExcludeKeywords # <<>>
     /\ \A i \in 1..Len(f_results) : HasStrTexts(f_results[i])) =>
        /\ ~f_out.raised
        /\ f_out.value = SelectSeq(f_results, PassesExclusion)

\* with ["php"], 'Senior PHP Developer' was dropped and 'Senior Developer'
\* with graphql in its description was kept
C4_Witness ==
    /\ f_out # Pending
    /\ ExcludeKeywords = <<"php">>
    /\ f_results = <<NormalizeJobData(RawNoDatetime), NormalizeJobData(RawSenior)>>
    /\ f_out.value = <<NormalizeJobData(RawSenior)>>

----------------------------------------------------------------------------
(* Properties of _normalize_job_data, checked under SpecNormalize *)

TwelveFields ==
    {"id", "title", "company", "location", "description", "url", "salary",
     "date_posted", "job_type", "experience_level", "skills", "is_remote"}

\* C9: the normalizer returns a record with exactly the twelve canonical
\* fields; a field of the raw record is copied, an absent one gets '' ([]
\* for skills, False for is_remote), and unknown keys are dropped.
C9_NormalizerTotal ==
    n_out # Pending =>
        /\ DOMAIN n_out = TwelveFields
        /\ \A k \in TwelveFields :
               IF k \in DOMAIN n_raw THEN n_out[k] = n_raw[k]
               ELSE IF k = "skills" THEN n_out[k] = PyList(<<>>)
               ELSE IF k = "is_remote" THEN n_out[k] = PyBool(FALSE)
               ELSE n_out[k] = PyStr("")

\* a raw record made of unknown keys only has been normalized
C9_Witness ==
    /\ n_out # Pending
    /\ DOMAIN n_raw = {"platform", "duration"}

\* C10: no field of a normalized record is None.
C10_NoNullFields ==
    n_out # Pending => \A k \in DOMAIN n_out : ~IsNone(n_out[k])

----------------------------------------------------------------------------
(* Properties of the connectors' error handling, checked under SpecConnector *)

\* C11 (as stated): when a fatal error occurs inside search_jobs, at any
\* point of the search, search_jobs returns an empty sequence.
C11_ErrorGivesEmpty ==
    (call.op = "search_jobs" /\ cpc = "returned" /\ exit_path = "exception")
        => results = <<>>

\* C11 (amended): a fatal error inside search_jobs does not leave the method:
\* the call goes through its finally block and returns, with the session
\* released, the listings of this connector collected before the error.
C11_ErrorContained ==
    (call.op = "search_jobs" /\ exit_path = "exception") =>
        /\ cpc \in {"finally", "returned"}
        /\ cpc = "returned" =>
               (driver[Conn] = NoDriver /\ used_sid \notin open_sessions)
        /\ \A i \in 1..Len(results) : results[i] \in Listings(Conn, "exception")

\* search_jobs has returned after an error, with listings collected before it
C11_Witness ==
    /\ call.op = "search_jobs"
    /\ cpc = "returned"
    /\ exit_path = "exception"
    /\ results # <<>>

\* C12: when a step of authenticate fails, authenticate returns False (to
\* its caller, or to the search_jobs / get_job_details that called it) and
\* the connector holds no session: _driver is None and the driver the
\* attempt created or found has been quit.
C12_AuthFailureReleases ==
    LET failed == \/ call.op = "authenticate" /\ cpc = "returned" /\ ~auth_ok
                  \/ call.op \in {"search_jobs", "get_job_details"}
                        /\ exit_path = "auth_failed"
    IN  failed => (driver[Conn] = NoDriver /\ used_sid \notin open_sessions)

\* authenticate has returned False after it had created a driver
C12_Witness ==
    /\ call.op = "authenticate"
    /\ cpc = "returned"
    /\ ~auth_ok
    /\ used_sid # NoDriver

\* C13: authenticate is idempotent: however often it is called, a connector
\* has at most the one session it holds; no session is open besides the
\* ones the connectors' _driver fields refer to.
C13_OneSessionPerConnector ==
    \A s \in open_sessions : \E c \in ConnectorModules : driver[c] = s

\* C14: apply_to_job of every connector and submit_application are safe
\* stubs: entering and leaving such a call changes no session, no _driver
\* and nothing of the agent, the call returns at once, and it returns False.
C14_ApplyIsSafeStub ==
    [][(call.op \in ApplyOps \/ call'.op \in ApplyOps) =>
          /\ UNCHANGED <<driver, open_sessions, next_sid>>
          /\ UNCHANGED agentVars
          /\ call'.op \in ApplyOps => (cpc' = "returned" /\ apply_ret' = PyBool(FALSE))]_vars

\* apply_to_job has returned False on a connector that holds a session
C14_Witness ==
    /\ call.op = "apply_to_job"
    /\ cpc = "returned"
    /\ apply_ret = PyBool(FALSE)
    /\ driver[Conn] # NoDriver
    /\ driver[Conn] \in open_sessions

----------------------------------------------------------------------------
(* Properties of main() and of the construction of the agent, checked      *)
(* under SpecMain                                                          *)

\* the configuration file main() loads
MainDoc == IF args.config = "" THEN files.default ELSE files.custom

LacksSection(doc) == ~(RequiredFields \subseteq DOMAIN doc)

\* no agent has been constructed, no connector method has been entered, no
\* browser has been started and no scheduled run has been entered
NoConnectorInvoked ==
    /\ pc = "none"
    /\ call = NoCall
    /\ next_sid = 1
    /\ started = 0
    /\ \A t \in Threads : thr[t] = "none"

\* C15: when the configuration main() loads, or in scheduler mode the one
\* the scheduler loads, lacks user_profile, job_search or platforms, no
\* connector is ever invoked and main() neither runs a search, nor starts
\* the scheduler, nor completes: it can only end with exit status 1.
C15_PipelineFatal ==
    (/\ mpc # "none"
     /\ \/ LacksSection(MainDoc)
        \/ args.schedule /\ LacksSection(files.default))
        => /\ NoConnectorInvoked
           /\ mpc \in {"start", "one_time", "scheduler", "exit_1"}

\* scheduler mode: the file given on the command line is complete, the
\* default file the scheduler loads has no platforms section, and main()
\* has ended with exit status 1
C15_Witness ==
    /\ mpc = "exit_1"
    /\ args.schedule
    /\ args.config = "custom"
    /\ ~LacksSection(files.custom)
    /\ files.default = DocNoPlatforms

Resolvable(e) == DictGet(e.settings, "enabled", FALSE) /\ e.name \in ConnectorModules

\* an enabled platform of the section has no connector module
UnresolvedEnabled(section) ==
    \E i \in 1..Len(section) :
        DictGet(section[i].settings, "enabled", FALSE) /\ ~Resolvable(section[i])

\* C16 (as stated): an enabled platform name without a connector
\* implementation makes the construction of the agent fail: no agent is
\* ever built from such a configuration.
C16_UnknownPlatformFailsFast ==
    pc # "none" => ~UnresolvedEnabled(config["platforms"])

\* C16 (amended): the construction of the agent succeeds whatever the
\* platform names are; the agent holds the connectors of exactly the
\* enabled platforms that have a module, in the order of the
\* configuration, and main() goes on to run the search with them.
C16_UnknownPlatformSkipped ==
    pc # "none" =>
        /\ LET sel == SelectSeq(config["platforms"], Resolvable)
           IN  platforms = [i \in 1..Len(sel) |-> sel[i].name]
        /\ mpc \in {"running", "exit_0", "exit_1"}

\* a search has been completed by an agent whose configuration enables a
\* platform without a module
C16_Witness ==
    /\ pc = "done"
    /\ mpc = "exit_0"
    /\ UnresolvedEnabled(config["platforms"])
    /\ Len(platforms) = 2
    /\ run_result # <<>>

----------------------------------------------------------------------------
(* Properties of the scheduler, checked under SpecScheduler *)

\* stop() has returned and start() has not been entered since
StopReturned == spc = "idle" /\ ~is_running /\ stop_event

\* a loop thread enters _run_job_search
RunStarts == \E t \in Threads : thr[t] # "build" /\ thr'[t] = "build"

\* C17: the steps of stop() leave every loop thread, and so a run in
\* progress, where it is and discard no saved result; and once stop() has
\* returned no scheduled run is started until start() is called again.
C17_StopSemantics ==
    [][/\ ((spc \in StopPositions \/ spc' \in StopPositions) /\ spc' # spc)
            => (thr' = thr /\ saved' = saved)
       /\ StopReturned => ~RunStarts]_vars

----------------------------------------------------------------------------
(* Further properties of _filter_results, checked under SpecFilter *)

\* C18: filtering an already filtered list with the same exclusion
\* keywords returns the same list: nothing more is removed, nothing is
\* reordered and no exception is raised.
C18_FilterIdempotent ==
    f_again # Pending => (~f_again.raised /\ f_again.value = f_out.value)

\* a list from which the first pass removed a listing and kept another has
\* been filtered a second time
C18_Witness ==
    /\ f_again # Pending
    /\ f_out.value # <<>>
    /\ Len(f_out.value) < Len(f_results)

\* C19: when exclude_keywords is absent or empty, _filter_results returns
\* its argument as it is, same listings in the same order, and looks at no
\* listing: a listing without a title or with a None title passes too.
C19_EmptyExclusionIsIdentity ==
    (f_out # Pending /\ ExcludeKeywords = <<>>) =>
        (~f_out.raised /\ f_out.value = f_results)

\* a listing whose title is None and one without a title key have passed
\* the filter of a configuration with an empty exclude_keywords list
C19_Witness ==
    /\ f_out # Pending
    /\ "exclude_keywords" \in DOMAIN job_search
    /\ ExcludeKeywords = <<>>
    /\ f_results = <<NullTitleJob, UntitledJob>>
    /\ f_out.value = f_results

----------------------------------------------------------------------------
(* Property of the ids Fiverr generates, checked under SpecFiverr *)

\* C20: the ids a connector generates are unique within its source: when
\* the Fiverr search is over, two different listings of its result never
\* have the same id.
C20_IdsUniqueWithinSource ==
    fv_k > Len(fv_keywords) =>
        \A i, j \in 1..Len(fv_results) :
            fv_results[i] # fv_results[j] => fv_results[i]["id"] # fv_results[j]["id"]

----------------------------------------------------------------------------
(* Further properties of run(), checked under Spec *)

\* number of occurrences of x in the list
Count(list, x) == Cardinality({i \in 1..Len(list) : list[i] = x})

\* the two lists hold the same elements the same number of times
SameBag(a, b) ==
    /\ Len(a) = Len(b)
    /\ \A i \in 1..Len(a) : Count(a, a[i]) = Count(b, a[i])

\* C21: no deduplication across sources and no loss: the list run returns
\* is, as a multiset, the union over the connectors whose search_jobs
\* returned of their listings that pass the exclusion rule, each stamped
\* with its connector; nothing else is in it and nothing of it is missing.
C21_NoDedupNoLoss ==
    pc = "done" => SameBag(run_result, MergedUpTo(Len(platforms)))

\* listings with the same id, returned by two different connectors, are
\* both in the result
C21_Witness ==
    /\ pc = "done"
    /\ \E i, j \in 1..Len(run_result) :
           /\ i # j
           /\ run_result[i]["id"] = run_result[j]["id"]
           /\ run_result[i]["platform"] # run_result[j]["platform"]

----------------------------------------------------------------------------
(* Order of the connector calls, checked under SpecMain *)

IsEnabled(e) == DictGet(e.settings, "enabled", FALSE)

\* one search_jobs call per enabled platform that has a module, in the
\* order of the platforms section, each with the criteria of job_search
ExpectedCalls ==
    LET sel == SelectSeq(config["platforms"], Resolvable)
    IN  [i \in 1..Len(sel) |->
            [conn |-> sel[i].name, criteria |-> SearchCriteria(config["job_search"])]]

\* C22: in one run, search_jobs is called exactly once on each enabled and
\* loaded connector, in the order of the configuration, always with the
\* same criteria, whether or not an earlier connector failed; a platform
\* that is not enabled has no connector, no session and no call.
C22_InvocationOrder ==
    pc # "none" =>
        /\ Len(invoked) <= Len(ExpectedCalls)
        /\ invoked = SubSeq(ExpectedCalls, 1, Len(invoked))
        /\ RunOver => invoked = ExpectedCalls
        /\ \A i \in 1..Len(config["platforms"]) :
               LET e == config["platforms"][i]
               IN  ~IsEnabled(e) =>
                       /\ e.name \notin Loaded
                       /\ call.conn # e.name
                       /\ e.name \in ConnectorModules =>
                              (driver[e.name] = NoDriver /\ returned[e.name] = NotCalled)

\* a run is over in which the first connector failed and the second was
\* still called, under a configuration with platforms that are not enabled
C22_Witness ==
    /\ pc = "done"
    /\ Len(invoked) = 2
    /\ ConnectorFailed(invoked[1].conn)
    /\ SearchReturned(invoked[2].conn)
    /\ run_result # <<>>
    /\ \E i \in 1..Len(config["platforms"]) : ~IsEnabled(config["platforms"][i])

----------------------------------------------------------------------------
(* Frame of run(), checked under Spec *)

\* the listing without its platform tag
WithoutTag(job) == [k \in DOMAIN job \ {"platform"} |-> job[k]]

\* C23: run changes nothing of a listing but its platform tag, written
\* once when the listing is added: a step of the loop keeps the listings
\* already collected as they are and adds listings that are, tag aside,
\* listings the connector just returned; the sort only reorders; and no
\* step of run changes job_search.
C23_ListingImmutability ==
    [][/\ job_search' = job_search
       /\ (pc = "loop" /\ pc' = "loop") =>
              /\ Len(all_results') >= Len(all_results)
              /\ SubSeq(all_results', 1, Len(all_results)) = all_results
              /\ \A k \in (Len(all_results) + 1)..Len(all_results') :
                     /\ all_results'[k]["platform"] = PyStr(Conn)
                     /\ \E i \in 1..Len(results) : WithoutTag(all_results'[k]) = results[i]
       /\ (pc = "loop" /\ pc' = "done") =>
              (all_results' = all_results /\ SameBag(run_result', all_results))]_vars

\* a run with exclusion keywords is over; the filter dropped a listing and
\* the sort moved one
C23_Witness ==
    /\ pc = "done"
    /\ ExcludeKeywords # <<>>
    /\ Len(run_result) >= 2
    /\ run_result # all_results
    /\ \E p \in Loaded :
           /\ SearchReturned(p)
           /\ \E i \in 1..Len(returned[p].value) : ~PassesExclusion(returned[p].value[i])

----------------------------------------------------------------------------
(* Placement of the filter in run(), checked under Spec *)

RECURSIVE UnfilteredUpTo(_)
\* the batches the connectors returned, stamped and concatenated in the
\* order of self.platforms, nothing filtered
UnfilteredUpTo(n) ==
    IF n = 0 THEN <<>>
    ELSE LET p == platforms[n]
             batch == IF SearchReturned(p) THEN returned[p].value ELSE <<>>
         IN  UnfilteredUpTo(n - 1) \o StampPlatform(batch, p)

\* merge first, filter once, then sort
FilterAfterMerge ==
    LET filtered == FilterResults(UnfilteredUpTo(Len(platforms)), job_search)
    IN  IF filtered.raised THEN filtered ELSE SortResults(filtered.value)

\* C24: filtering every batch before it is merged, as run does, ends in the
\* same outcome as merging the batches and filtering once before the sort:
\* the same sorted list, or in both cases the exception of the sort.
C24_FilterPlacement ==
    RunOver => FilterAfterMerge = [raised |-> pc = "raised", value |-> run_result]

\* two connectors returned listings, each batch lost a listing to the
\* filter, and the run returned what was left
C24_Witness ==
    /\ pc = "done"
    /\ run_result # <<>>
    /\ Cardinality({p \in Loaded :
                       /\ SearchReturned(p)
                       /\ \E i \in 1..Len(returned[p].value) :
                              ~PassesExclusion(returned[p].value[i])}) >= 2

----------------------------------------------------------------------------
(* Sessions over repeated scheduled runs, checked under SpecRuns *)

\* C25: at no moment of a run is more than one browser session open; no
\* session is open between two connector calls or once a run is over, and
\* so none is open before, between or after the scheduled runs, whether or
\* not connectors failed in them.
C25_SessionBound ==
    /\ Cardinality(open_sessions) <= 1
    /\ call = NoCall => open_sessions = {}
    /\ pc \in {"none", "done", "raised"} => open_sessions = {}

\* the second scheduled run is over; the first one had ended with an
\* exception, a connector failed in the second, and sessions had been opened
C25_Witness ==
    /\ started = 2
    /\ saved = 0
    /\ pc = "done"
    /\ next_sid > 2
    /\ \E p \in Loaded : ConnectorFailed(p)

----------------------------------------------------------------------------
(* Further properties of the scheduler, checked under SpecScheduler *)

\* the loop threads that have been started and have not ended
LiveLoops == {t \in Threads : thr[t] \notin {"none", "stopped", "killed"}}

\* the loop threads that are inside _run_job_search
InJobSearch == {t \in Threads : thr[t] \in {"build", "run"}}

\* C26: whatever start and stop calls are made, at most one loop thread is
\* live, and so two scheduled runs never overlap.
C26_SingleLoop ==
    /\ Cardinality(LiveLoops) <= 1
    /\ Cardinality(InJobSearch) <= 1

\* C27: however a scheduled run ends, with its results saved or with an
\* exception in the construction of the agent, in run or in saving, the
\* loop thread goes on to its sleep and from there to the next test of
\* the loop; the run changes neither the registered job nor is_running
\* nor the stop event, so later scheduled runs still take place.
C27_RunContained ==
    [][\A t \in Threads :
          /\ (thr[t] \in {"build", "run"} /\ thr'[t] # thr[t]) =>
                 /\ thr'[t] \in {"run", "sleep"}
                 /\ UNCHANGED <<sched_jobs, is_running, stop_event, s_config>>
          /\ (thr[t] = "sleep" /\ thr'[t] # thr[t]) => thr'[t] = "check"]_vars

\* the only loop thread has entered a second scheduled run after a first
\* one that saved nothing
C27_Witness ==
    /\ started = 2
    /\ saved = 0
    /\ \E t \in Threads :
           /\ thr[t] = "build"
           /\ \A u \in Threads \ {t} : thr[u] = "none"

\* the loop threads that have been spawned
Spawned == {t \in Threads : thr[t] # "none"}

\* C28: the body of start() is entered only when the scheduler is not
\* running and the body of stop() only when it is; outside these bodies
\* is_running, the registered jobs, the stop event and the set of spawned
\* threads do not change; a scheduler that is disabled or has an
\* unsupported frequency never runs, never registers a job and never
\* spawns a thread; and in every state at most one job is registered,
\* exactly one while is_running is True and none once stop() has returned.
C28_StartStopMachine ==
    /\ [](/\ sched_jobs <= 1
          /\ is_running => sched_jobs = 1
          /\ StopReturned => sched_jobs = 0
          /\ ~ScheduleAccepted => (~is_running /\ sched_jobs = 0 /\ Spawned = {}))
    /\ [][/\ (spc = "idle" /\ spc' = "start_setup") => ~is_running
          /\ (spc = "idle" /\ spc' = "stop_event") => is_running
          /\ spc = "idle" =>
                 /\ UNCHANGED <<is_running, sched_jobs, stop_event>>
                 /\ Spawned' = Spawned]_vars

\* start(), stop() and start() again have returned: the scheduler is
\* running with one job, and both loop threads have been spawned
C28_Witness ==
    /\ spc = "idle"
    /\ is_running
    /\ sched_jobs = 1
    /\ Spawned = Threads

----------------------------------------------------------------------------
(* Pagination, checked under SpecPagination *)

\* the pages extracted for query q, in the order of extraction
PagesOf(q) ==
    LET OfQuery(e) == e.query = q
        sel == SelectSeq(pg_results, OfQuery)
    IN  [i \in 1..Len(sel) |-> sel[i].page]

\* C29: for every query at most max_pages = 3 pages are extracted, the
\* first one and at most two reached by the next button, in their order;
\* results only grows; an error during the pagination keeps results as it
\* is and lets the next query begin (or the search end normally after the
\* last query); and the search always comes to its end.
C29_BoundedPagination ==
    /\ [](/\ current_page <= max_pages
          /\ \A q \in 1..MaxQueries :
                 /\ Len(PagesOf(q)) <= max_pages
                 /\ \A i \in 1..Len(PagesOf(q)) : PagesOf(q)[i] = i)
    /\ [][/\ Len(pg_results') >= Len(pg_results)
          /\ SubSeq(pg_results', 1, Len(pg_results)) = pg_results
          /\ (pg_pc = "next" /\ Len(pg_exit') > Len(pg_exit)
                 /\ pg_exit'[Len(pg_exit')] = "error") =>
                 /\ pg_results' = pg_results
                 /\ IF pg_q < pg_queries
                    THEN pg_q' = pg_q + 1 /\ pg_pc' = "first"
                    ELSE pg_pc' = "done"]_vars
    /\ <>(pg_pc \in {"done", "failed"})

\* the pagination of the first query failed after its second page, and the
\* second query went on to the page limit
C29_Witness ==
    /\ pg_pc = "done"
    /\ pg_exit = <<"error", "limit">>
    /\ PagesOf(1) = <<1, 2>>
    /\ PagesOf(2) = <<1, 2, 3>>

----------------------------------------------------------------------------
(* Configuration of the scheduled runs, checked under SpecMain *)

\* C30: in scheduler mode the scheduler, whose configuration every
\* scheduled run builds its agent from, holds the configuration main()
\* loaded and validated from the path given on the command line.
C30_SameConfiguration ==
    (args.schedule /\ s_config # PyNone) => s_config = config

====
